---- MODULE Spec2Model ----
(***************************************************************************)
(* Streaming transport client of the speech-to-text front end              *)
(* (frontend/src/hooks/useTranscription.ts): the backpressure queue of     *)
(* sendAudio, the connection life cycle and the ping/pong heartbeat.       *)
(*                                                                         *)
(* The hook runs on the single-threaded host context: every action below   *)
(* is one event handler or one caller-invoked operation run to completion, *)
(* together with the render and the effects it triggers.  The browser      *)
(* socket is a separate object: its own readyState (wsState) can move to   *)
(* CLOSING before the hook has observed any event, so the hook's cached    *)
(* readyState can lag behind it.                                           *)
(*                                                                         *)
(* Incoming messages (filter and message effect) and the audio worklet     *)
(* (PCMProcessor: resampler, accumulator, quantization, stop and config    *)
(* messages) with the recorder's side of its port are part of the module;  *)
(* each subsystem is also given a specification of its own, made of the    *)
(* operations that touch its state.  The worklet runs on the audio thread: *)
(* its messages reach the recorder in later tasks of the host context.     *)
(*                                                                         *)
(* Audio chunks are numbered 1, 2, ... in the order they are handed to     *)
(* sendAudio; wire is the sequence of binary frames written to the socket. *)
(* Display-only mirrors (bytesSent, queuedChunks, lastPingLatency) are not *)
(* part of the model.                                                      *)
(***************************************************************************)
EXTENDS Integers, Sequences, FiniteSets, TLC

\* ------------------------------------------------------------------ bounds
\* maxQueueSize option of the hook (default 50).
maxQueueSize == 2
\* Number of audio chunks the caller hands to sendAudio in one behaviour.
MaxChunks == 4
\* Cap on the missed-ping counter.
MaxMissed == 4
\* Cap on the number of ping-timeout timers pending at the same time.
MaxPending == 2
\* Longest text of a transcription message, in characters.
MaxTextLen == 2
\* Cap on the number of finalized segments.
MaxSegments == 2
\* Cap on the length of the moderation history.
MaxModeration == 1
\* Number of input samples fed to one PCM processor in one behaviour.
MaxInput == 441
\* Cap on the number of samples an engine appends in one behaviour of the
\* engine specification.
MaxAppended == 5
\* Cap on the number of stop messages an engine handles.
MaxStops == 2
\* Cap on the number of faults raised in process().
MaxFaults == 1
\* Cap on the number of config messages an engine handles.
MaxConfigs == 1
\* Number of frames fed to the engine in the specification of the resample
\* position.
MaxFrames == 4
\* A close code other than the normal one.
ABNORMAL_CLOSE == 1006
\* A heartbeatInterval option value shorter than PING_TIMEOUT.
SHORT_HEARTBEAT_INTERVAL == 2000

\* ------------------------------------------------------- program constants
DEFAULT_HEARTBEAT_INTERVAL == 30000
PING_TIMEOUT == 5000
UNHEALTHY_THRESHOLD == 3
NORMAL_CLOSE == 1000
reconnectAttempts == 5
DEFAULT_TARGET_SAMPLE_RATE == 16000
RENDER_QUANTUM == 128
DEFAULT_BUFFER_SIZE == 4096
levelUpdateInterval == 512
\* useRecording: the wait loops of startRecording and stopRecording (ms)
START_MAX_WAIT == 10000
START_CHECK_INTERVAL == 50
STOP_CHECK_INTERVAL == 100
STABLE_THRESHOLD == 1000
MIN_STOP_WAIT == 5000
STREAMING_MAX_LATENCY == 500
INT16_MIN == -32768
INT16_MAX == 32767

\* heartbeatInterval option values explored: the default and one shorter
\* than the ping timeout.
HeartbeatIntervals == {SHORT_HEARTBEAT_INTERVAL, DEFAULT_HEARTBEAT_INTERVAL}
CloseCodes == {NORMAL_CLOSE, ABNORMAL_CLOSE}

ERR_NONE == "null"
ERR_WS == "WebSocket connection error"
ERR_DEAD == "Connection appears dead (no heartbeat response)"

VARIABLES
  enableQueue,          \* option enableQueue
  heartbeatInterval,    \* option heartbeatInterval
  shouldConnect,        \* React state shouldConnect (latest setState)
  renderedShouldConnect,\* shouldConnect as of the last render: the value
                        \* the shouldReconnect closure and the library see
  reconnectCount,       \* the library's count of consecutive reconnects
  lastCloseCode,        \* code of the last close event (0: none yet)
  wsState,              \* the socket's own readyState; "NONE": no socket
  readyState,           \* the hook's cached readyState (last render)
  reconnectPending,     \* the library has scheduled a reconnect attempt
  configSentRef,
  sessionId,            \* state.sessionId ("null" or an id)
  pingIntervalRef,      \* TRUE: the periodic ping timer is armed
  pingTimeoutRef,       \* "null" | "pending" (handle of a pending timer)
                        \* | "done" (handle of a timer that already fired)
  pendingTimeouts,      \* number of armed ping-timeout timers not yet fired
  missedPingsRef,
  connectionHealth,     \* state.connectionHealth
  error,                \* state.error
  audioQueueRef,
  isProcessingQueueRef,
  wire,                 \* binary frames written to the socket, in order
  nextChunk,            \* number of the next chunk handed to sendAudio
  \* ---- history variables (observations of the last operation)
  lastOp,               \* name of the last operation
  ret,                  \* "true" | "false": return value of the last
                        \* sendAudio; "none" after any other operation
  lastBuf,              \* chunk passed to the last sendAudio (0 else)
  sendFailed,           \* chunks whose ws.send threw in the last sendAudio
  onErrorArg,           \* message passed to onError by the last operation
  notOpenLog,           \* queue contents when the current run of not-open
                        \* pushes began, followed by the chunks pushed since
  acceptedAtOpen,       \* notOpenLog when the last open event arrived
  openDelivered,        \* frames written by the last open event
  armedBeforePong,      \* pending timers armed before the last pong
  firedStale,           \* last fired timer was armed before a pong
  ctrlSent,             \* types of the control messages the last operation
                        \* passed to sendJsonMessage, in order
  sentSessionId,        \* sessionId carried by the start_session in ctrlSent
  \* ---- transcript and moderation state
  interimText,          \* state.interimText (a text, or UNDEFINED)
  finalizedSegments,    \* state.finalizedSegments
  fullTranscript,       \* state.fullTranscript
  moderationResults,    \* state.moderationResults (labels, in order)
  renderError,          \* a state updater threw while React rendered
  \* ---- history variables of the last incoming message
  lastMsg,              \* the message the last operation received
  onTranscriptionCalled,\* the last operation invoked onTranscription
  onModerationCalled,   \* the last operation invoked onModeration
  onHealthChangeArg,    \* health passed to onHealthChange by the last
                        \* operation ("none": not invoked)
  lastMessage,          \* the library's lastMessage (NoMsg: null)
  effectPending,        \* lastMessage has changed since the message
                        \* effect last ran
  arrivedFinals,        \* trimmed non-empty texts of the final
                        \* transcription messages received since the
                        \* segments were last reset (history)
  arrivedModeration,    \* labels of the moderation messages received
                        \* since the history was last reset (history)
  \* ---- PCM processors (the audio worklet), one entry per processor
  inputSampleRate,      \* sampleRate of the audio context
  targetSampleRate,
  resamplePosition,     \* this.resamplePosition, in units of
                        \* 1 / targetSampleRate of an input sample
  samplesIn,            \* input samples passed to process() so far
  samplesOut,           \* calls of addSample so far
  frameLog,             \* lengths of the frames passed to process()
  bufferSize,           \* this.bufferSize, the chunk size
  bytesWritten,         \* this.bytesWritten
  buffer,               \* this.buffer[0 .. bytesWritten - 1], as far as
                        \* the array reaches
  rawBuffer,            \* the samples as addSample received them, slot
                        \* by slot (history)
  state,                \* this.state
  isRunning,            \* this.isRunning
  posted,               \* messages the engine posted to its port, in
                        \* order
  hostRead,             \* how many of them the host's port has received
  onmessage,            \* the host's workletNode.port.onmessage is set
  delivered,            \* audio buffers handed to onAudioData, in order
  dropped,              \* audio buffers received with no handler set
  processRet,           \* what the last process() call returned
  pcmOp,                \* the last operation of the engine or its host
  postFailed,           \* a postMessage call of the engine has thrown
  stops,                \* stop messages handled so far
  faults,               \* faults raised in process() so far
  configs,              \* config messages handled so far
  levelSampleCount,     \* this.levelSampleCount
  levelSum,             \* this.levelSum, in units of 1 / SAMPLE_UNIT^2
  levels,               \* the levels of the level notifications the
                        \* engine posted, in order (they are kept apart
                        \* from the other messages of the port)
  before,               \* the last config message, and configuration and
                        \* accumulator before it (history)
  \* ---- useRecording: startRecording and stopRecording
  recPc,                \* where the operation in progress stands: "idle",
                        \* "connecting" (waitForConnection), "starting"
                        \* (await start()), "waiting" (stopRecording's
                        \* wait loop)
  isRecording,          \* the store's isRecording flag
  capturing,            \* the audio recorder has a microphone stream
                        \* connected to its worklet node
  waited,               \* waited, of the wait loop in progress (ms)
  maxWait,              \* maxWait of that loop (ms)
  stableTime,           \* stableTime of stopRecording (ms)
  lastTranscriptLength, \* lastTranscriptLength of stopRecording
  hadAnyData,           \* hadAnyData of stopRecording
  recOp,                \* how the last start or stop ended (history)
  polledTranscript,     \* fullTranscript as it was at the last poll of
                        \* stopRecording (history)
  unchangedFor          \* for how many ms of polls in a row fullTranscript
                        \* has been the same text (history)

hook == <<enableQueue, heartbeatInterval, shouldConnect,
          renderedShouldConnect, reconnectCount, lastCloseCode,
          wsState, readyState,
          reconnectPending, configSentRef, pingIntervalRef, pingTimeoutRef,
          pendingTimeouts, missedPingsRef, connectionHealth, error,
          audioQueueRef, isProcessingQueueRef, wire, nextChunk,
          lastOp, ret, lastBuf, sendFailed, onErrorArg, notOpenLog,
          acceptedAtOpen, openDelivered, armedBeforePong, firedStale,
          sessionId, ctrlSent, sentSessionId,
          interimText, finalizedSegments, fullTranscript,
          moderationResults, renderError,
          lastMsg, onTranscriptionCalled, onModerationCalled,
          onHealthChangeArg, lastMessage, effectPending,
          arrivedFinals, arrivedModeration>>

resampler == <<inputSampleRate, targetSampleRate, resamplePosition,
               samplesIn, samplesOut, frameLog>>

accumulator == <<bufferSize, bytesWritten, buffer, rawBuffer>>

port == <<posted, hostRead, onmessage, delivered, dropped>>

meter == <<levelSampleCount, levelSum, levels>>

pcm == <<resampler, accumulator, port, meter, state, isRunning, processRet,
         pcmOp, postFailed, stops, faults, configs, before>>

rec == <<recPc, isRecording, capturing, waited, maxWait, stableTime,
         lastTranscriptLength, hadAnyData, recOp, polledTranscript,
         unchangedFor>>

vars == <<hook, pcm, rec>>

options == <<enableQueue, heartbeatInterval>>

\* Transcript and moderation state.
inbox == <<interimText, finalizedSegments, fullTranscript,
           moderationResults, renderError, arrivedFinals,
           arrivedModeration>>

\* What the library's reconnect policy keeps between events.
policy == <<renderedShouldConnect, reconnectCount, lastCloseCode>>

\* ----------------------------------------------------------------- helpers
Min(a, b) == IF a < b THEN a ELSE b

LastN(s, n) == SubSeq(s, Len(s) - n + 1, Len(s))

Range(s) == {s[i] : i \in DOMAIN s}

\* updateConnectionHealth: health as a function of the missed-ping count.
updateConnectionHealth_LeqThreshold(missed) ==
  IF missed = 0 THEN "healthy"
  ELSE IF missed <= UNHEALTHY_THRESHOLD THEN "degraded"
  ELSE "unhealthy"

updateConnectionHealth(missed) ==
  IF missed = 0 THEN "healthy"
  ELSE IF missed < UNHEALTHY_THRESHOLD THEN "degraded"
  ELSE "unhealthy"

\* The ping-timeout callback's error report: the message stored in
\* state.error and passed to onError, or "none" below the threshold.
PingTimeoutError_Above(missed) ==
  IF missed > UNHEALTHY_THRESHOLD THEN ERR_DEAD ELSE "none"

PingTimeoutError(missed) ==
  IF missed >= UNHEALTHY_THRESHOLD THEN ERR_DEAD ELSE "none"

\* audioQueueRef.current.push(b); if (length > maxQueueSize) shift()
QueuePush_NoDrop(q, b) == Append(q, b)

QueuePush_DropNewest(q, b) ==
  IF Len(q) >= maxQueueSize THEN q ELSE Append(q, b)

QueuePush(q, b) ==
  LET pushed == Append(q, b)
  IN IF Len(pushed) > maxQueueSize THEN Tail(pushed) ELSE pushed

\* while (queue.length > 0) { chunk = shift(); try send(chunk)
\*                            catch { unshift(chunk); break } }
\* failAt = i > 0: the i-th send of the loop throws; 0: none throws.
RECURSIVE DrainLoop(_, _, _, _)
DrainLoop(q, sent, i, failAt) ==
  IF Len(q) = 0 THEN [queue |-> q, sent |-> sent, failed |-> {}]
  ELSE LET chunk == Head(q)
           rest == Tail(q)
       IN IF i = failAt
          THEN [queue |-> <<chunk>> \o rest, sent |-> sent, failed |-> {chunk}]
          ELSE DrainLoop(rest, Append(sent, chunk), i + 1, failAt)

\* processQueue(): the early returns, then the drain loop.
processQueue(q, rs, ws, processing, failAt) ==
  IF processing \/ rs # "OPEN" \/ Len(q) = 0 \/ ws # "OPEN"
  THEN [queue |-> q, sent |-> <<>>, failed |-> {}]
  ELSE DrainLoop(q, <<>>, 1, failAt)

\* ---------------------------------------------------- incoming messages
\* A text is a sequence of characters; "a" stands for any character that
\* is not white space.
Chars == {"a", " "}

Texts == UNION {[1..n -> Chars] : n \in 0..MaxTextLen}

\* The value of a field that is missing from the parsed object.
UNDEFINED == <<"undefined">>

MessageTypes == {"transcription", "moderation", "pong", "session_started",
                 "session_ended", "error", "unknown"}

\* One label stands for any moderation result.
ModerationLabels == {"HATE"}

\* lastMessage.data: text that JSON.parse rejects ("invalid"), or an
\* object with a type and the fields the handlers look at.
Msg(json, type, text, isFinal, timestamp, label) ==
  [json |-> json, type |-> type, text |-> text, is_final |-> isFinal,
   timestamp |-> timestamp, label |-> label]

NoMsg == Msg(FALSE, "none", UNDEFINED, FALSE, FALSE, "none")

InvalidJson == Msg(FALSE, "invalid", UNDEFINED, FALSE, FALSE, "none")

PongMsg == Msg(TRUE, "pong", UNDEFINED, FALSE, TRUE, "none")

Messages ==
  {InvalidJson}
    \cup {Msg(TRUE, "transcription", t, f, FALSE, "none") :
            t \in Texts \cup {UNDEFINED}, f \in BOOLEAN}
    \cup {Msg(TRUE, "moderation", UNDEFINED, FALSE, FALSE, l) :
            l \in ModerationLabels}
    \cup {Msg(TRUE, "pong", UNDEFINED, FALSE, ts, "none") : ts \in BOOLEAN}
    \cup {Msg(TRUE, ty, UNDEFINED, FALSE, FALSE, "none") :
            ty \in {"session_started", "session_ended", "error", "unknown"}}

\* filter: false (consumed by handlePong) for a pong with a timestamp.
filterPasses_TypeOnly(m) == ~(m.json /\ m.type = "pong")

filterPasses(m) == ~(m.json /\ m.type = "pong" /\ m.timestamp)

\* String.prototype.trim
RECURSIVE trimStart(_)
trimStart(t) ==
  IF t # <<>> /\ Head(t) = " " THEN trimStart(Tail(t)) ELSE t

RECURSIVE trimEnd(_)
trimEnd(t) ==
  IF t # <<>> /\ t[Len(t)] = " " THEN trimEnd(SubSeq(t, 1, Len(t) - 1))
  ELSE t

trim(t) == trimEnd(trimStart(t))

\* Boolean(x) for a text or undefined
Truthy(t) == t # <<>> /\ t # UNDEFINED

\* Array.prototype.join(' ')
RECURSIVE join(_)
join(parts) ==
  IF parts = <<>> THEN <<>>
  ELSE IF Len(parts) = 1 THEN parts[1]
  ELSE parts[1] \o <<" ">> \o join(Tail(parts))

\* [...newSegments, newInterim].filter(Boolean).join(' ')
buildFullTranscript(segments, interim) ==
  join(SelectSeq(Append(segments, interim), Truthy))

\* if (response.text.trim()) newSegments.push(response.text.trim())
pushFinal_Untrimmed(segments, text) == Append(segments, text)

pushFinal(segments, text) ==
  IF trim(text) # <<>> THEN Append(segments, trim(text)) ELSE segments

\* ------------------------------------------------------------------- Init
\* Two processors, to compare the same input cut into different frames.
Engines == {"p1", "p2"}

\* Rates an audio context runs at.
SampleRates == {8000, 16000, 44100, 48000}

\* Messages an engine posts to the host.  raw is history: the samples the
\* chunk was made of, as addSample received them.
AudioMsg(data, raw) ==
  [type |-> "audio", buffer |-> data, raw |-> raw, state |-> "none"]

StateMsg(newState) ==
  [type |-> "state", buffer |-> <<>>, raw |-> <<>>, state |-> newState]

ErrorMsg ==
  [type |-> "error", buffer |-> <<>>, raw |-> <<>>, state |-> "none"]

\* What a config message may replace and what it may discard, as it was
\* when the message arrived, with the two fields of the message.
Snapshot(e, size, rate) ==
  [bufferSize |-> bufferSize[e], targetSampleRate |-> targetSampleRate[e],
   bytesWritten |-> bytesWritten[e], buffer |-> buffer[e],
   posted |-> Len(posted[e]), size |-> size, rate |-> rate]

\* PCMProcessor constructor with processorOptions.bufferSize = size; the
\* recorder sets the port's handler right after it.
PcmConstructed(rate, size) ==
  /\ inputSampleRate = rate
  /\ targetSampleRate = [e \in Engines |-> DEFAULT_TARGET_SAMPLE_RATE]
  /\ resamplePosition = [e \in Engines |-> 0]
  /\ samplesIn = [e \in Engines |-> 0]
  /\ samplesOut = [e \in Engines |-> 0]
  /\ frameLog = [e \in Engines |-> <<>>]
  /\ bufferSize = [e \in Engines |-> size]
  /\ bytesWritten = [e \in Engines |-> 0]
  /\ buffer = [e \in Engines |-> <<>>]
  /\ rawBuffer = [e \in Engines |-> <<>>]
  /\ state = [e \in Engines |-> "running"]
  /\ isRunning = [e \in Engines |-> TRUE]
  /\ posted = [e \in Engines |-> <<StateMsg("running")>>]
  /\ hostRead = [e \in Engines |-> 0]
  /\ onmessage = [e \in Engines |-> TRUE]
  /\ delivered = [e \in Engines |-> <<>>]
  /\ dropped = [e \in Engines |-> <<>>]
  /\ processRet = [e \in Engines |-> "none"]
  /\ pcmOp = [e \in Engines |-> "init"]
  /\ postFailed = [e \in Engines |-> FALSE]
  /\ stops = [e \in Engines |-> 0]
  /\ faults = [e \in Engines |-> 0]
  /\ configs = [e \in Engines |-> 0]
  /\ levelSampleCount = [e \in Engines |-> 0]
  /\ levelSum = [e \in Engines |-> 0]
  /\ levels = [e \in Engines |-> <<>>]
  /\ before = [e \in Engines |->
                 [bufferSize |-> size,
                  targetSampleRate |-> DEFAULT_TARGET_SAMPLE_RATE,
                  bytesWritten |-> 0, buffer |-> <<>>, posted |-> 1,
                  size |-> 0, rate |-> 0]]

\* PCMProcessor constructor with the default buffer size.
InitPcm(rate) == PcmConstructed(rate, DEFAULT_BUFFER_SIZE)

\* useRecording before the first startRecording().
InitRec ==
  /\ recPc = "idle"
  /\ isRecording = FALSE
  /\ capturing = FALSE
  /\ waited = 0
  /\ maxWait = 0
  /\ stableTime = 0
  /\ lastTranscriptLength = 0
  /\ hadAnyData = FALSE
  /\ recOp = "none"
  /\ polledTranscript = <<>>
  /\ unchangedFor = 0

\* useTranscription before the first connect().
InitHook ==
  /\ shouldConnect = FALSE
  /\ renderedShouldConnect = FALSE
  /\ reconnectCount = 0
  /\ lastCloseCode = 0
  /\ wsState = "NONE"
  /\ readyState = "UNINSTANTIATED"
  /\ reconnectPending = FALSE
  /\ configSentRef = FALSE
  /\ pingIntervalRef = FALSE
  /\ pingTimeoutRef = "null"
  /\ pendingTimeouts = 0
  /\ missedPingsRef = 0
  /\ connectionHealth = "healthy"
  /\ error = ERR_NONE
  /\ audioQueueRef = <<>>
  /\ isProcessingQueueRef = FALSE
  /\ wire = <<>>
  /\ nextChunk = 1
  /\ lastOp = "init"
  /\ ret = "none"
  /\ lastBuf = 0
  /\ sendFailed = {}
  /\ onErrorArg = "none"
  /\ notOpenLog = <<>>
  /\ acceptedAtOpen = <<>>
  /\ openDelivered = <<>>
  /\ armedBeforePong = 0
  /\ firedStale = FALSE
  /\ sessionId = "null"
  /\ ctrlSent = <<>>
  /\ sentSessionId = "null"
  /\ interimText = <<>>
  /\ finalizedSegments = <<>>
  /\ fullTranscript = <<>>
  /\ moderationResults = <<>>
  /\ renderError = FALSE
  /\ lastMsg = NoMsg
  /\ onTranscriptionCalled = FALSE
  /\ onModerationCalled = FALSE
  /\ onHealthChangeArg = "none"
  /\ lastMessage = NoMsg
  /\ effectPending = FALSE
  /\ arrivedFinals = <<>>
  /\ arrivedModeration = <<>>

Init ==
  /\ enableQueue \in BOOLEAN
  /\ heartbeatInterval \in HeartbeatIntervals
  /\ InitHook
  /\ InitRec
  /\ InitPcm(DEFAULT_TARGET_SAMPLE_RATE)

\* History bookkeeping shared by the operations that are neither sendAudio,
\* an open event nor a heartbeat event.
Observe(op) ==
  /\ lastOp' = op
  /\ ret' = "none"
  /\ lastBuf' = 0
  /\ sendFailed' = {}
  /\ acceptedAtOpen' = <<>>
  /\ openDelivered' = <<>>
  /\ firedStale' = FALSE

\* The operation receives no message and invokes no message callback.
NoMessage ==
  /\ lastMsg' = NoMsg
  /\ onTranscriptionCalled' = FALSE
  /\ onModerationCalled' = FALSE
  /\ UNCHANGED <<lastMessage, effectPending>>

\* The operation passes nothing to sendJsonMessage.
NoControl ==
  /\ ctrlSent' = <<>>
  /\ sentSessionId' = "null"

\* generateSessionId: `${Date.now()}_${random}`, an id not used before.
\* Two ids are enough to tell each session from the one before it.
SessionIds == {"s1", "s2"}

generateSessionId(prev) == CHOOSE id \in SessionIds : id # prev

\* The state updater of updateConnectionHealth: onHealthChange?.(health)
\* when the stored health differs from the new one.  The result is the
\* argument of that call, "none" when the callback is not invoked.
healthChange(prev, health) == IF prev # health THEN health ELSE "none"

\* clearTimeout(pingTimeoutRef.current); pingTimeoutRef.current = null
ClearPingTimeout ==
  /\ pingTimeoutRef' = "null"
  /\ pendingTimeouts' =
       IF pingTimeoutRef = "pending" THEN pendingTimeouts - 1
       ELSE pendingTimeouts
  /\ armedBeforePong' = Min(armedBeforePong, pendingTimeouts')

\* ------------------------------------------------------------- operations
\* connect(): setShouldConnect(true); the library then creates the socket.
\* Taken once the previous socket, if any, has reported its close.
Connect ==
  /\ NoControl
  /\ NoMessage
  /\ UNCHANGED <<sessionId, inbox>>
  /\ ~shouldConnect
  /\ ~renderedShouldConnect
  /\ wsState \in {"NONE", "CLOSED"}
  /\ shouldConnect' = TRUE
  /\ renderedShouldConnect' = TRUE
  /\ reconnectCount' = 0
  /\ UNCHANGED lastCloseCode
  /\ wsState' = "CONNECTING"
  /\ readyState' = "CONNECTING"
  /\ reconnectPending' = FALSE
  /\ Observe("connect")
  /\ UNCHANGED <<pcm, rec>>
  /\ onErrorArg' = "none"
  /\ onHealthChangeArg' = "none"
  /\ UNCHANGED <<options, configSentRef, pingIntervalRef, pingTimeoutRef,
                 pendingTimeouts, missedPingsRef, connectionHealth, error,
                 audioQueueRef, isProcessingQueueRef, wire, nextChunk,
                 notOpenLog, armedBeforePong>>

\* useWebSocket(shouldConnect ? wsUrl : null, options, shouldConnect): the
\* library keeps a connection only while the rendered flag is true.
connectWanted_Always(want) == TRUE

connectWanted(want) == want

\* The library's scheduled reconnect attempt (reconnectInterval after the
\* close event).  A render requested by disconnect() is carried out long
\* before a timer of that length expires.
Reconnect ==
  /\ NoControl
  /\ NoMessage
  /\ UNCHANGED <<sessionId, inbox>>
  /\ reconnectPending
  /\ renderedShouldConnect = shouldConnect
  /\ connectWanted(renderedShouldConnect)
  /\ wsState = "CLOSED"
  /\ reconnectPending' = FALSE
  /\ reconnectCount' = reconnectCount + 1
  /\ UNCHANGED <<renderedShouldConnect, lastCloseCode>>
  /\ wsState' = "CONNECTING"
  /\ readyState' = "CONNECTING"
  /\ Observe("reconnect")
  /\ UNCHANGED <<pcm, rec>>
  /\ onErrorArg' = "none"
  /\ onHealthChangeArg' = "none"
  /\ UNCHANGED <<options, shouldConnect, configSentRef, pingIntervalRef,
                 pingTimeoutRef, pendingTimeouts, missedPingsRef,
                 connectionHealth, error, audioQueueRef,
                 isProcessingQueueRef, wire, nextChunk, notOpenLog,
                 armedBeforePong>>

\* The body of the send-config effect once its guard has passed: config,
\* start_session with a new session id, the state reset, the periodic ping
\* timer (replacing the one in pingIntervalRef) and the initial sendPing.
SendConfig ==
  /\ configSentRef' = TRUE
  /\ sessionId' = generateSessionId(sessionId)
  /\ sentSessionId' = sessionId'
  /\ ctrlSent' = <<"config", "start_session", "ping">>
  /\ error' = ERR_NONE
  /\ interimText' = <<>>
  /\ finalizedSegments' = <<>>
  /\ fullTranscript' = <<>>
  /\ arrivedFinals' = <<>>
  /\ pingIntervalRef' = TRUE
  /\ pingTimeoutRef' = "pending"          \* sendPing(): new timeout handle
  /\ pendingTimeouts' = pendingTimeouts + 1

\* The guard of the send-config effect.
configDue(rs, sent) == rs = "OPEN" /\ ~sent

\* Socket open event: onOpen, then the render with readyState OPEN and its
\* effects: the connection-state effect (processQueue) and the send-config
\* effect (config, start_session, periodic ping timer, initial sendPing).
WsOpen ==
  /\ wsState = "CONNECTING"
  /\ pendingTimeouts < MaxPending
  /\ LET q0 == <<>>                       \* onOpen: audioQueueRef.current = []
         d == processQueue(q0, "OPEN", "OPEN", isProcessingQueueRef, 0)
     IN /\ audioQueueRef' = d.queue
        /\ wire' = wire \o d.sent
        /\ openDelivered' = d.sent
        /\ notOpenLog' = d.queue
  /\ acceptedAtOpen' = notOpenLog
  /\ wsState' = "OPEN"
  /\ readyState' = "OPEN"
  /\ reconnectPending' = FALSE
  /\ reconnectCount' = 0
  /\ UNCHANGED <<renderedShouldConnect, lastCloseCode>>
  /\ missedPingsRef' = 0
  /\ connectionHealth' = "healthy"
  /\ SendConfig                           \* onOpen reset configSentRef
  /\ moderationResults' = <<>>            \* onOpen
  /\ arrivedModeration' = <<>>
  /\ NoMessage
  /\ UNCHANGED renderError
  /\ lastOp' = "open"
  /\ UNCHANGED <<pcm, rec>>
  /\ ret' = "none"
  /\ lastBuf' = 0
  /\ sendFailed' = {}
  /\ onErrorArg' = "none"
  /\ onHealthChangeArg' = "none"
  /\ firedStale' = FALSE
  /\ UNCHANGED <<options, shouldConnect, isProcessingQueueRef, nextChunk,
                 armedBeforePong>>

\* Socket open event when React commits the new readyState in a later
\* task: onOpen only.  Until that render the hook's callbacks still see
\* readyState CONNECTING.
WsOpenEvent ==
  /\ wsState = "CONNECTING"
  /\ wsState' = "OPEN"
  /\ UNCHANGED readyState
  /\ configSentRef' = FALSE
  /\ missedPingsRef' = 0
  /\ audioQueueRef' = <<>>
  /\ acceptedAtOpen' = notOpenLog
  /\ notOpenLog' = <<>>
  /\ openDelivered' = <<>>
  /\ interimText' = <<>>
  /\ finalizedSegments' = <<>>
  /\ fullTranscript' = <<>>
  /\ moderationResults' = <<>>
  /\ arrivedFinals' = <<>>
  /\ arrivedModeration' = <<>>
  /\ sessionId' = "null"
  /\ error' = ERR_NONE
  /\ connectionHealth' = "healthy"
  /\ reconnectPending' = FALSE
  /\ reconnectCount' = 0
  /\ UNCHANGED <<renderedShouldConnect, lastCloseCode>>
  /\ NoControl
  /\ NoMessage
  /\ UNCHANGED renderError
  /\ lastOp' = "openEvent"
  /\ ret' = "none"
  /\ lastBuf' = 0
  /\ sendFailed' = {}
  /\ onErrorArg' = "none"
  /\ onHealthChangeArg' = "none"
  /\ firedStale' = FALSE
  /\ UNCHANGED <<pcm, rec>>
  /\ UNCHANGED <<options, shouldConnect, pingIntervalRef, pingTimeoutRef,
                 pendingTimeouts, isProcessingQueueRef, wire, nextChunk,
                 armedBeforePong>>

\* The render that follows such an open event, with its effects in the
\* order of their declaration: the connection-state effect (processQueue)
\* and then the send-config effect.
RenderOpen ==
  /\ wsState = "OPEN"
  /\ readyState = "CONNECTING"
  /\ pendingTimeouts < MaxPending
  /\ LET d == processQueue(audioQueueRef, "OPEN", "OPEN",
                           isProcessingQueueRef, 0)
     IN /\ audioQueueRef' = d.queue
        /\ wire' = wire \o d.sent
        /\ openDelivered' = d.sent
        /\ notOpenLog' = d.queue
  /\ acceptedAtOpen' = notOpenLog
  /\ readyState' = "OPEN"
  /\ SendConfig
  /\ NoMessage
  /\ UNCHANGED <<moderationResults, renderError, arrivedModeration>>
  /\ lastOp' = "renderOpen"
  /\ ret' = "none"
  /\ lastBuf' = 0
  /\ sendFailed' = {}
  /\ onErrorArg' = "none"
  /\ onHealthChangeArg' = "none"
  /\ firedStale' = FALSE
  /\ UNCHANGED <<pcm, rec>>
  /\ UNCHANGED <<options, policy, shouldConnect, wsState, reconnectPending,
                 missedPingsRef, connectionHealth, isProcessingQueueRef,
                 nextChunk, armedBeforePong>>

\* The closing handshake starts (the peer or the network ends the
\* connection): the socket's readyState becomes CLOSING; no event has been
\* delivered to the hook yet.
WsClosing ==
  /\ NoControl
  /\ NoMessage
  /\ UNCHANGED <<sessionId, inbox>>
  /\ wsState = "OPEN"
  /\ wsState' = "CLOSING"
  /\ Observe("closing")
  /\ UNCHANGED <<pcm, rec>>
  /\ onErrorArg' = "none"
  /\ onHealthChangeArg' = "none"
  /\ UNCHANGED <<options, shouldConnect, policy, readyState,
                 reconnectPending,
                 configSentRef, pingIntervalRef, pingTimeoutRef,
                 pendingTimeouts, missedPingsRef, connectionHealth, error,
                 audioQueueRef, isProcessingQueueRef, wire, nextChunk,
                 notOpenLog, armedBeforePong>>

\* shouldReconnect: (closeEvent) => closeEvent.code !== 1000 && shouldConnect
shouldReconnect_AnyCode(code, want) == want

shouldReconnect(code, want) == code # NORMAL_CLOSE /\ want

\* Socket close event: onClose, the library's reconnect decision (the
\* shouldReconnect closure of the last render, then the attempt limit) and
\* the render with readyState CLOSED.
WsClose(code) ==
  /\ NoControl
  /\ NoMessage
  /\ UNCHANGED <<sessionId, inbox>>
  /\ wsState \in {"CONNECTING", "OPEN", "CLOSING"}
  /\ wsState' = "CLOSED"
  /\ readyState' = "CLOSED"
  /\ configSentRef' = FALSE
  /\ pingIntervalRef' = FALSE
  /\ ClearPingTimeout
  /\ reconnectPending' = (/\ shouldReconnect(code, renderedShouldConnect)
                          /\ reconnectCount < reconnectAttempts)
  /\ lastCloseCode' = code
  /\ UNCHANGED <<renderedShouldConnect, reconnectCount>>
  /\ Observe("close")
  /\ UNCHANGED <<pcm, rec>>
  /\ onErrorArg' = "none"
  /\ onHealthChangeArg' = "none"
  /\ notOpenLog' = audioQueueRef
  /\ UNCHANGED <<options, shouldConnect, missedPingsRef, connectionHealth,
                 error, audioQueueRef, isProcessingQueueRef, wire,
                 nextChunk>>

\* Socket error event: onError.
WsError ==
  /\ NoControl
  /\ NoMessage
  /\ UNCHANGED <<sessionId, inbox>>
  /\ wsState \in {"CONNECTING", "OPEN", "CLOSING"}
  /\ error' = ERR_WS
  /\ connectionHealth' = "unhealthy"
  /\ Observe("error")
  /\ UNCHANGED <<pcm, rec>>
  /\ onErrorArg' = ERR_WS
  /\ onHealthChangeArg' = "none"          \* onError sets the state itself
  /\ UNCHANGED <<options, shouldConnect, policy, wsState, readyState,
                 reconnectPending, configSentRef, pingIntervalRef,
                 pingTimeoutRef, pendingTimeouts, missedPingsRef,
                 audioQueueRef, isProcessingQueueRef, wire, nextChunk,
                 notOpenLog, armedBeforePong>>

\* disconnect(): the synchronous body.  setShouldConnect(false) takes
\* effect at the next render (RenderDisconnect).
DisconnectBody ==
  /\ NoControl
  /\ NoMessage
  /\ UNCHANGED <<sessionId, inbox>>
  /\ shouldConnect' = FALSE
  /\ configSentRef' = FALSE
  /\ pingIntervalRef' = FALSE
  /\ audioQueueRef' = <<>>
  /\ notOpenLog' = <<>>
  /\ wsState' = IF wsState \in {"CONNECTING", "OPEN"} THEN "CLOSING"
                ELSE wsState               \* ws.close(1000, ...)
  /\ Observe("disconnect")
  /\ onErrorArg' = "none"
  /\ onHealthChangeArg' = "none"
  /\ UNCHANGED <<options, policy, readyState, reconnectPending,
                 pingTimeoutRef, pendingTimeouts, missedPingsRef,
                 connectionHealth, error, isProcessingQueueRef, wire,
                 nextChunk, armedBeforePong>>

Disconnect == DisconnectBody /\ UNCHANGED <<pcm, rec>>

\* The render after disconnect(): the hook passes a null url and a false
\* connect flag, the library gives up the connection (closes the socket,
\* cancels a scheduled reconnect, resets its counter) and reports CLOSED.
RenderDisconnect ==
  /\ NoControl
  /\ NoMessage
  /\ UNCHANGED <<sessionId, inbox>>
  /\ renderedShouldConnect
  /\ ~shouldConnect
  /\ renderedShouldConnect' = FALSE
  /\ IF connectWanted(shouldConnect)
     THEN UNCHANGED <<reconnectPending, reconnectCount, readyState, wsState>>
     ELSE /\ reconnectPending' = FALSE
          /\ reconnectCount' = 0
          /\ readyState' = "CLOSED"
          /\ wsState' = IF wsState \in {"CONNECTING", "OPEN"}
                        THEN "CLOSING" ELSE wsState
  /\ Observe("render")
  /\ UNCHANGED <<pcm, rec>>
  /\ onErrorArg' = "none"
  /\ onHealthChangeArg' = "none"
  /\ UNCHANGED <<options, shouldConnect, lastCloseCode, configSentRef,
                 pingIntervalRef, pingTimeoutRef, pendingTimeouts,
                 missedPingsRef, connectionHealth, error, audioQueueRef,
                 isProcessingQueueRef, wire, nextChunk, notOpenLog,
                 armedBeforePong>>

\* sendAudio(audioBuffer).  failAt and curFails say which ws.send calls of
\* this invocation throw: the failAt-th send of the drain loop (0: none) and
\* the send of the current buffer.
SendAudio(failAt, curFails) ==
  /\ UNCHANGED <<pcm, rec>>
  /\ NoControl
  /\ NoMessage
  /\ UNCHANGED <<sessionId, inbox>>
  /\ nextChunk <= MaxChunks
  /\ LET buf == nextChunk
     IN
     /\ nextChunk' = nextChunk + 1
     /\ lastOp' = "sendAudio"
     /\ lastBuf' = buf
     /\ IF readyState # "OPEN"
        THEN /\ failAt = 0 /\ ~curFails
             /\ IF enableQueue
                THEN /\ audioQueueRef' = QueuePush(audioQueueRef, buf)
                     /\ notOpenLog' = Append(notOpenLog, buf)
                     /\ ret' = "true"
                ELSE /\ UNCHANGED <<audioQueueRef, notOpenLog>>
                     /\ ret' = "false"
             /\ sendFailed' = {}
             /\ UNCHANGED wire
        ELSE IF wsState # "OPEN"
        THEN /\ failAt = 0 /\ ~curFails
             /\ ret' = "false"
             /\ sendFailed' = {}
             /\ UNCHANGED <<audioQueueRef, notOpenLog, wire>>
        ELSE
          /\ failAt <= Len(audioQueueRef)
          /\ LET d == IF ~isProcessingQueueRef /\ Len(audioQueueRef) > 0
                      THEN DrainLoop(audioQueueRef, <<>>, 1, failAt)
                      ELSE [queue |-> audioQueueRef, sent |-> <<>>,
                            failed |-> {}]
             IN IF ~curFails
                THEN /\ wire' = (wire \o d.sent) \o <<buf>>
                     /\ audioQueueRef' = d.queue
                     /\ notOpenLog' = d.queue
                     /\ sendFailed' = d.failed
                     /\ ret' = "true"
                ELSE /\ wire' = wire \o d.sent
                     /\ audioQueueRef' =
                          IF enableQueue THEN QueuePush(d.queue, buf)
                          ELSE d.queue
                     /\ notOpenLog' = audioQueueRef'
                     /\ sendFailed' = d.failed \cup {buf}
                     /\ ret' = "false"
  /\ onErrorArg' = "none"
  /\ onHealthChangeArg' = "none"
  /\ acceptedAtOpen' = <<>>
  /\ openDelivered' = <<>>
  /\ firedStale' = FALSE
  /\ UNCHANGED <<options, shouldConnect, policy, wsState, readyState,
                 reconnectPending, configSentRef, pingIntervalRef,
                 pingTimeoutRef, pendingTimeouts, missedPingsRef,
                 connectionHealth, error, isProcessingQueueRef,
                 armedBeforePong>>

\* The periodic ping timer fires: sendPing as captured when the timer was
\* armed (readyState OPEN in that closure).  A timer of PING_TIMEOUT armed
\* by an earlier ping has fired or been cleared by now whenever the
\* interval is longer than PING_TIMEOUT.
PingTick ==
  /\ ctrlSent' = <<"ping">>
  /\ sentSessionId' = "null"
  /\ NoMessage
  /\ UNCHANGED <<sessionId, inbox>>
  /\ pingIntervalRef
  /\ pendingTimeouts < MaxPending
  /\ heartbeatInterval > PING_TIMEOUT => pendingTimeouts = 0
  /\ pingTimeoutRef' = "pending"
  /\ pendingTimeouts' = pendingTimeouts + 1
  /\ Observe("pingTick")
  /\ UNCHANGED <<pcm, rec>>
  /\ onErrorArg' = "none"
  /\ onHealthChangeArg' = "none"
  /\ UNCHANGED <<options, shouldConnect, policy, wsState, readyState,
                 reconnectPending, configSentRef, pingIntervalRef,
                 missedPingsRef, connectionHealth, error, audioQueueRef,
                 isProcessingQueueRef, wire, nextChunk, notOpenLog,
                 armedBeforePong>>

\* A ping-timeout timer fires (the oldest pending one; all have the same
\* delay).
PingTimeout ==
  /\ NoControl
  /\ NoMessage
  /\ UNCHANGED <<sessionId, inbox>>
  /\ pendingTimeouts > 0
  /\ missedPingsRef < MaxMissed
  /\ pendingTimeouts' = pendingTimeouts - 1
  /\ pingTimeoutRef' = IF pingTimeoutRef = "pending" /\ pendingTimeouts = 1
                       THEN "done" ELSE pingTimeoutRef
  /\ missedPingsRef' = missedPingsRef + 1
  /\ connectionHealth' = updateConnectionHealth(missedPingsRef')
  /\ onHealthChangeArg' =
       healthChange(connectionHealth, updateConnectionHealth(missedPingsRef'))
  /\ LET e == PingTimeoutError(missedPingsRef')
     IN /\ error' = IF e = "none" THEN error ELSE e
        /\ onErrorArg' = e
  /\ firedStale' = (armedBeforePong > 0)
  /\ armedBeforePong' = IF armedBeforePong > 0 THEN armedBeforePong - 1
                        ELSE 0
  /\ lastOp' = "pingTimeout"
  /\ UNCHANGED <<pcm, rec>>
  /\ ret' = "none"
  /\ lastBuf' = 0
  /\ sendFailed' = {}
  /\ acceptedAtOpen' = <<>>
  /\ openDelivered' = <<>>
  /\ UNCHANGED <<options, shouldConnect, policy, wsState, readyState,
                 reconnectPending, configSentRef, pingIntervalRef,
                 audioQueueRef, isProcessingQueueRef, wire, nextChunk,
                 notOpenLog>>

\* A pong message arrives: the filter callback runs handlePong.
WsPong ==
  /\ NoControl
  /\ lastMsg' = PongMsg
  /\ onTranscriptionCalled' = FALSE
  /\ onModerationCalled' = FALSE
  /\ UNCHANGED <<sessionId, inbox>>
  /\ wsState = "OPEN"
  /\ pingTimeoutRef' = "null"
  /\ pendingTimeouts' =
       IF pingTimeoutRef = "pending" THEN pendingTimeouts - 1
       ELSE pendingTimeouts
  /\ armedBeforePong' = pendingTimeouts'
  /\ missedPingsRef' = 0
  /\ connectionHealth' = updateConnectionHealth(0)
  \* the updater of updateConnectionHealth(0) runs after the updater
  \* that has already stored 'healthy'
  /\ onHealthChangeArg' = healthChange("healthy", updateConnectionHealth(0))
  /\ UNCHANGED <<lastMessage, effectPending>>
  /\ Observe("pong")
  /\ UNCHANGED <<pcm, rec>>
  /\ onErrorArg' = "none"
  /\ UNCHANGED <<options, shouldConnect, policy, wsState, readyState,
                 reconnectPending, configSentRef, pingIntervalRef, error,
                 audioQueueRef, isProcessingQueueRef, wire, nextChunk,
                 notOpenLog>>

\* A render in which an option the send-config effect depends on (model,
\* sampleRate, heartbeat callbacks) has changed: the effect is evaluated
\* again with the readyState of that render.
OptionsChange ==
  /\ pendingTimeouts < MaxPending
  /\ IF configDue(readyState, configSentRef)
     THEN SendConfig
     ELSE /\ NoControl
          /\ UNCHANGED <<configSentRef, sessionId, error, pingIntervalRef,
                         pingTimeoutRef, pendingTimeouts, interimText,
                         finalizedSegments, fullTranscript,
                         arrivedFinals>>
  /\ NoMessage
  /\ UNCHANGED <<moderationResults, renderError, arrivedModeration>>
  /\ Observe("optionsChange")
  /\ UNCHANGED <<pcm, rec>>
  /\ onErrorArg' = "none"
  /\ onHealthChangeArg' = "none"
  /\ UNCHANGED <<options, shouldConnect, policy, wsState, readyState,
                 reconnectPending, missedPingsRef, connectionHealth,
                 audioQueueRef, isProcessingQueueRef, wire, nextChunk,
                 notOpenLog, armedBeforePong>>

\* flush(): if (readyState !== ReadyState.OPEN) return false
flushAllowed_Always(rs) == TRUE

flushAllowed(rs) == rs = "OPEN"

\* flush(): one flush control message while open, nothing otherwise.
FlushBody ==
  /\ IF flushAllowed(readyState)
     THEN /\ ctrlSent' = <<"flush">>
          /\ ret' = "true"
     ELSE /\ ctrlSent' = <<>>
          /\ ret' = "false"
  /\ sentSessionId' = "null"
  /\ NoMessage
  /\ UNCHANGED inbox
  /\ lastOp' = "flush"
  /\ lastBuf' = 0
  /\ sendFailed' = {}
  /\ acceptedAtOpen' = <<>>
  /\ openDelivered' = <<>>
  /\ firedStale' = FALSE
  /\ onErrorArg' = "none"
  /\ onHealthChangeArg' = "none"
  /\ UNCHANGED <<options, shouldConnect, policy, wsState, readyState,
                 reconnectPending, configSentRef, sessionId,
                 pingIntervalRef, pingTimeoutRef, pendingTimeouts,
                 missedPingsRef, connectionHealth, error, audioQueueRef,
                 isProcessingQueueRef, wire, nextChunk, notOpenLog,
                 armedBeforePong>>

Flush == FlushBody /\ UNCHANGED <<pcm, rec>>

\* What a message that passes the filter adds to the history of
\* received messages.
Arrive(m) ==
  /\ arrivedFinals' =
       IF m.json /\ m.type = "transcription" /\ m.text # UNDEFINED
          /\ m.is_final
       THEN pushFinal(arrivedFinals, m.text)
       ELSE arrivedFinals
  /\ arrivedModeration' =
       IF m.json /\ m.type = "moderation"
       THEN Append(arrivedModeration, m.label)
       ELSE arrivedModeration

\* The message effect for lastMessage m: JSON.parse, the moderation
\* branch, otherwise the transcription branch (whatever the type), then
\* onTranscription.  An exception inside the effect is caught and logged;
\* the state updater runs when React renders, outside that try block.
MessageEffect(m) ==
  /\ lastMsg' = m
  /\ IF ~m.json
     THEN /\ UNCHANGED <<interimText, finalizedSegments, fullTranscript,
                         moderationResults, renderError>>
          /\ onTranscriptionCalled' = FALSE
          /\ onModerationCalled' = FALSE
     ELSE IF m.type = "moderation"
     THEN /\ Len(moderationResults) < MaxModeration
          /\ moderationResults' = Append(moderationResults, m.label)
          /\ onModerationCalled' = TRUE
          /\ onTranscriptionCalled' = FALSE
          /\ UNCHANGED <<interimText, finalizedSegments, fullTranscript,
                         renderError>>
     ELSE /\ onTranscriptionCalled' = TRUE
          /\ onModerationCalled' = FALSE
          /\ UNCHANGED moderationResults
          /\ IF m.is_final /\ m.text = UNDEFINED
             THEN /\ renderError' = TRUE     \* undefined.trim()
                  /\ UNCHANGED <<interimText, finalizedSegments,
                                 fullTranscript>>
             ELSE /\ UNCHANGED renderError
                  /\ m.is_final => Len(finalizedSegments) < MaxSegments
                  /\ finalizedSegments' =
                       IF m.is_final
                       THEN pushFinal(finalizedSegments, m.text)
                       ELSE finalizedSegments
                  /\ interimText' = IF m.is_final THEN <<>> ELSE m.text
                  /\ fullTranscript' =
                       buildFullTranscript(finalizedSegments', interimText')

\* Every operation below that leaves the connection, the heartbeat and the
\* audio path alone.
MessageFrame(op) ==
  /\ NoControl
  /\ Observe(op)
  /\ UNCHANGED <<pcm, rec>>
  /\ onErrorArg' = "none"
  /\ onHealthChangeArg' = "none"
  /\ UNCHANGED <<options, shouldConnect, policy, wsState, readyState,
                 reconnectPending, configSentRef, sessionId,
                 pingIntervalRef, pingTimeoutRef, pendingTimeouts,
                 missedPingsRef, connectionHealth, error, audioQueueRef,
                 isProcessingQueueRef, wire, nextChunk, notOpenLog,
                 armedBeforePong>>

\* A message that passed the filter becomes lastMessage and the message
\* effect runs in the render of the same task.
WsMessage(m) ==
  /\ wsState = "OPEN"
  /\ ~renderError
  /\ ~effectPending
  /\ filterPasses(m)
  /\ lastMessage' = m
  /\ UNCHANGED effectPending
  /\ Arrive(m)
  /\ MessageEffect(m)
  /\ MessageFrame("message")

\* A message that passed the filter becomes lastMessage; React renders in
\* a later task.  lastMessage holds one message: the one set before it is
\* replaced.
WsMessageEvent(m) ==
  /\ wsState = "OPEN"
  /\ ~renderError
  /\ filterPasses(m)
  /\ m.json /\ m.type = "transcription" /\ m.is_final
       => Len(arrivedFinals) < MaxSegments
  /\ m.json /\ m.type = "moderation"
       => Len(arrivedModeration) < MaxModeration
  /\ lastMessage' = m
  /\ effectPending' = TRUE
  /\ Arrive(m)
  /\ lastMsg' = m
  /\ onTranscriptionCalled' = FALSE
  /\ onModerationCalled' = FALSE
  /\ UNCHANGED <<interimText, finalizedSegments, fullTranscript,
                 moderationResults, renderError>>
  /\ MessageFrame("messageEvent")

\* The render after one or more such events: the message effect runs once,
\* for the lastMessage of that render.
RenderMessage ==
  /\ effectPending
  /\ ~renderError
  /\ effectPending' = FALSE
  /\ UNCHANGED <<lastMessage, arrivedFinals, arrivedModeration>>
  /\ MessageEffect(lastMessage)
  /\ MessageFrame("renderMessage")

\* A render in which onTranscription, onModeration or handlePong (through
\* onHealthChange) is a new function: the message effect, which lists them
\* as dependencies, runs again for the unchanged lastMessage.
CallbacksChange ==
  /\ ~effectPending
  /\ ~renderError
  /\ lastMessage # NoMsg
  /\ UNCHANGED <<lastMessage, effectPending, arrivedFinals,
                 arrivedModeration>>
  /\ MessageEffect(lastMessage)
  /\ MessageFrame("callbacksChange")

\* clearTranscription()
ClearTranscription ==
  /\ interimText' = <<>>
  /\ finalizedSegments' = <<>>
  /\ fullTranscript' = <<>>
  /\ moderationResults' = <<>>
  /\ arrivedFinals' = <<>>
  /\ arrivedModeration' = <<>>
  /\ UNCHANGED renderError
  /\ NoMessage
  /\ NoControl
  /\ Observe("clearTranscription")
  /\ UNCHANGED <<pcm, rec>>
  /\ onErrorArg' = "none"
  /\ onHealthChangeArg' = "none"
  /\ UNCHANGED <<options, shouldConnect, policy, wsState, readyState,
                 reconnectPending, configSentRef, sessionId,
                 pingIntervalRef, pingTimeoutRef, pendingTimeouts,
                 missedPingsRef, connectionHealth, error, audioQueueRef,
                 isProcessingQueueRef, wire, nextChunk, notOpenLog,
                 armedBeforePong>>

\* ------------------------------------------------------------ PCM engine
Abs(x) == IF x < 0 THEN -x ELSE x

RECURSIVE GCD(_, _)
GCD(a, b) == IF b = 0 THEN a ELSE GCD(b, a % b)

RECURSIVE IsPowerOfTwo(_)
IsPowerOfTwo(n) ==
  IF n = 1 THEN TRUE
  ELSE IF n % 2 = 1 THEN FALSE
  ELSE IsPowerOfTwo(n \div 2)

\* this.resampleRatio = inputSampleRate / targetSampleRate is a double.
\* When the quotient has a finite binary expansion the positions the loop
\* adds up are exact; otherwise each carries a rounding error far below
\* 1 / targetSampleRate, which decides the comparison with the frame
\* length only when the exact position equals it.
RatioExact(R, T) == IsPowerOfTwo(T \div GCD(R, T))

\* Math.abs(this.resampleRatio - 1) < 0.001
noResampling(R, T) == 1000 * Abs(R - T) < T

\* while (this.resamplePosition < inputLength) { addSample;
\* resamplePosition += resampleRatio }: the number of turns of the loop
\* and the position it ends at.  The loop runs until the position has
\* reached the frame length; roundsBelow says that a position which is
\* exactly the frame length was rounded to just below it, so the loop
\* takes one more turn.
resampleLoop_Early(pos, len, R, T, roundsBelow) ==
  LET limit == len * T
      turns == IF pos >= limit THEN 0 ELSE (limit - pos) \div R
  IN [position |-> pos + turns * R, out |-> turns]

resampleLoop(pos, len, R, T, roundsBelow) ==
  LET limit == len * T
      turns == IF pos >= limit THEN 0
               ELSE (limit - pos + R - 1) \div R
      tie == pos + turns * R = limit
      out == IF tie /\ roundsBelow /\ ~RatioExact(R, T)
             THEN turns + 1 ELSE turns
  IN [position |-> pos + out * R, out |-> out]

\* ---- samples.  A sample is a number of SAMPLE_UNIT-ths, so that 1.0 is
\* SAMPLE_UNIT; +Infinity, -Infinity and NaN are three values of their
\* own, +-Infinity beyond every number of the model.
SAMPLE_UNIT == 2
INFINITY == 1000
NAN == 2000

Max(a, b) == IF a > b THEN a ELSE b

Rep(x, n) == [i \in 1..n |-> x]

IsNumber(x) == x # NAN /\ x # INFINITY /\ x # -INFINITY

\* Frames of the model hold one value throughout.  sample1 + (sample2 -
\* sample1) * fracPos of two equal finite samples is that sample; of two
\* equal infinities it is NaN (Infinity - Infinity).
interpolate(v) == IF IsNumber(v) THEN v ELSE NAN

clamp_None(sample) == sample

\* Math.max(-1, Math.min(1, sample)): NaN stays NaN.
clamp(sample) ==
  IF sample = NAN THEN NAN
  ELSE Max(-SAMPLE_UNIT, Min(SAMPLE_UNIT, sample))

\* Storing a number into an Int16Array: NaN and the infinities become 0,
\* any other number is truncated and wrapped into 16 bits.
ToInt16(x) ==
  IF ~IsNumber(x) THEN 0
  ELSE LET m == x % 65536
       IN IF m > INT16_MAX THEN m - 65536 ELSE m

\* int16Data[i] = s < 0 ? s * 0x8000 : s * 0x7FFF, s read from the buffer.
quantize(s) ==
  IF ~IsNumber(s) THEN 0
  ELSE IF s < 0 THEN ToInt16(-((-s * (-INT16_MIN)) \div SAMPLE_UNIT))
  ELSE ToInt16((s * INT16_MAX) \div SAMPLE_UNIT)

\* flush() with bw = bytesWritten: the posted message.  The slots beyond
\* the end of the buffer read as undefined, which the arithmetic turns
\* into NaN.
FlushMsg(buf, raw, bw) ==
  AudioMsg([i \in 1..bw |-> IF i <= Len(buf) THEN quantize(buf[i]) ELSE 0],
           [i \in 1..bw |-> IF i <= Len(raw) THEN raw[i] ELSE NAN])

\* What posting a chunk does during one operation: "ok" posts it, "audio"
\* throws (the call that carries a transfer list).  Posting a message
\* without a transfer list succeeds.
PostOutcomes == {"ok", "audio"}

untilFlush_Late(bw, B) == Max(1, B - bw + 1)

\* if (this.bytesWritten >= this.bufferSize) this.flush(), after each
\* sample: the number of samples appended up to the next flush.
untilFlush(bw, B) == Max(1, B - bw)

\* k calls of addSample(v) in a row, from bytesWritten bw and buffer
\* contents buf (raw: as received) with bufferSize B.  A write beyond the
\* end of the buffer stores nothing and still counts; a flush that cannot
\* post leaves bytesWritten as it is and reports the error, and is tried
\* again by the next addSample.
addSamples(bw, buf, raw, B, k, v, fails) ==
  LET c == clamp(v)
      room == Max(0, B - Len(buf))
      first == untilFlush(bw, B)
  IN IF k = 0
     THEN [bytesWritten |-> bw, buffer |-> buf, raw |-> raw,
           posts |-> <<>>, failed |-> 0]
     ELSE IF fails # "ok"
     THEN [bytesWritten |-> bw + k,
           buffer |-> buf \o Rep(c, Min(k, room)),
           raw |-> raw \o Rep(v, Min(k, room)),
           posts |-> Rep(ErrorMsg, Max(0, k - first + 1)),
           failed |-> Max(0, k - first + 1)]
     ELSE IF k < first
     THEN [bytesWritten |-> bw + k,
           buffer |-> buf \o Rep(c, k),
           raw |-> raw \o Rep(v, k),
           posts |-> <<>>, failed |-> 0]
     ELSE LET rest == k - first
          IN [bytesWritten |-> rest % B,
              buffer |-> Rep(c, rest % B),
              raw |-> Rep(v, rest % B),
              posts |-> <<FlushMsg(buf \o Rep(c, Min(first, room)),
                                   raw \o Rep(v, Min(first, room)),
                                   bw + first)>>
                        \o Rep(FlushMsg(Rep(c, B), Rep(v, B), B),
                               rest \div B),
              failed |-> 0]

\* A level sum that is NaN; the sums of numbers are never negative.
NAN_SUM == -NAN

\* Math.sqrt of a whole number of squared units, rounded down to a whole
\* number of units.
Sqrt(x) == CHOOSE r \in 0..x : r * r <= x /\ (r + 1) * (r + 1) > x

\* const rms = Math.sqrt(this.levelSum / this.levelSampleCount)
rms(sum, count) == IF sum = NAN_SUM THEN NAN ELSE Sqrt(sum \div count)

\* this.levelSum += clampedSample * clampedSample, n times over.
addSquares(sum, c, n) ==
  IF n = 0 THEN sum
  ELSE IF sum = NAN_SUM \/ c = NAN THEN NAN_SUM
  ELSE sum + n * c * c

\* if (this.levelSampleCount >= this.levelUpdateInterval), after each
\* sample: the number of samples up to the next level notification.
levelDue(count) == Max(1, levelUpdateInterval - count)

\* The level tracking of k calls of addSample(v) in a row, from
\* levelSampleCount count and levelSum sum: the notifications sent and the
\* window left.
addLevels(count, sum, k, v) ==
  LET c == clamp(v)
      first == levelDue(count)
  IN IF k < first
     THEN [count |-> count + k, sum |-> addSquares(sum, c, k),
           levels |-> <<>>]
     ELSE LET rest == k - first
              whole == rest \div levelUpdateInterval
              left == rest % levelUpdateInterval
          IN [count |-> left, sum |-> addSquares(0, c, left),
              levels |->
                <<rms(addSquares(sum, c, first), count + first)>>
                  \o Rep(rms(addSquares(0, c, levelUpdateInterval),
                             levelUpdateInterval), whole)]

processRuns_Always(running) == TRUE

\* if (!this.isRunning) return false
processRuns(running) == running

\* process(inputs) with one channel of len samples, all of value v, on
\* processor e: processWithDownsampling.
Process(e, len, roundsBelow, v, fails) ==
  /\ processRuns(isRunning[e])
  /\ samplesIn[e] + len <= MaxInput
  /\ samplesIn' = [samplesIn EXCEPT ![e] = @ + len]
  /\ frameLog' = [frameLog EXCEPT ![e] = Append(@, len)]
  /\ LET direct == noResampling(inputSampleRate, targetSampleRate[e])
         w == resampleLoop(resamplePosition[e], len,
                           inputSampleRate, targetSampleRate[e],
                           roundsBelow)
         out == IF direct THEN len ELSE w.out
         a == addSamples(bytesWritten[e], buffer[e], rawBuffer[e],
                         bufferSize[e], out,
                         IF direct THEN v ELSE interpolate(v), fails)
         m == addLevels(levelSampleCount[e], levelSum[e], out,
                        IF direct THEN v ELSE interpolate(v))
     IN /\ samplesOut' = [samplesOut EXCEPT ![e] = @ + out]
        /\ levelSampleCount' = [levelSampleCount EXCEPT ![e] = m.count]
        /\ levelSum' = [levelSum EXCEPT ![e] = m.sum]
        /\ levels' = [levels EXCEPT ![e] = @ \o m.levels]
        /\ resamplePosition' =
             [resamplePosition EXCEPT
                ![e] = IF direct THEN @
                       ELSE w.position - len * targetSampleRate[e]]
        /\ bytesWritten' = [bytesWritten EXCEPT ![e] = a.bytesWritten]
        /\ buffer' = [buffer EXCEPT ![e] = a.buffer]
        /\ rawBuffer' = [rawBuffer EXCEPT ![e] = a.raw]
        /\ posted' = [posted EXCEPT ![e] = @ \o a.posts]
        /\ state' = [state EXCEPT ![e] = IF a.failed > 0 THEN "error" ELSE @]
        /\ postFailed' = [postFailed EXCEPT ![e] = @ \/ a.failed > 0]
  /\ processRet' = [processRet EXCEPT ![e] = "true"]
  /\ pcmOp' = [pcmOp EXCEPT ![e] = "process"]
  /\ UNCHANGED rec
  /\ UNCHANGED <<hook, inputSampleRate, targetSampleRate, bufferSize,
                 isRunning, hostRead, onmessage, delivered, dropped,
                 stops, faults, configs, before>>

\* process() once the engine has stopped: line 133.
ProcessAfterStop(e) ==
  /\ ~isRunning[e]
  /\ processRet[e] # "false"
  /\ processRet' = [processRet EXCEPT ![e] = "false"]
  /\ pcmOp' = [pcmOp EXCEPT ![e] = "process"]
  /\ UNCHANGED meter
  /\ UNCHANGED rec
  /\ UNCHANGED <<hook, resampler, accumulator, port, state, isRunning,
                 postFailed, stops, faults, configs, before>>

\* process() with no input, no channel or an empty channel: lines 139, 142.
ProcessEmpty(e) ==
  /\ isRunning[e]
  /\ pcmOp[e] # "processEmpty"
  /\ processRet' = [processRet EXCEPT ![e] = "true"]
  /\ pcmOp' = [pcmOp EXCEPT ![e] = "processEmpty"]
  /\ UNCHANGED meter
  /\ UNCHANGED rec
  /\ UNCHANGED <<hook, resampler, accumulator, port, state, isRunning,
                 postFailed, stops, faults, configs, before>>

processFaultReturn_Stop == "false"

\* What process() returns from its catch block.
processFaultReturn == "true"

\* reportError(error).
reportError(e) ==
  /\ state' = [state EXCEPT ![e] = "error"]
  /\ posted' = [posted EXCEPT ![e] = Append(@, ErrorMsg)]

\* process() in which a statement of the try block throws before a sample
\* is appended (inputs is not an array of arrays): the catch block.
ProcessFault(e) ==
  /\ isRunning[e]
  /\ faults[e] < MaxFaults
  /\ faults' = [faults EXCEPT ![e] = @ + 1]
  /\ reportError(e)
  /\ processRet' = [processRet EXCEPT ![e] = processFaultReturn]
  /\ pcmOp' = [pcmOp EXCEPT ![e] = "fault"]
  /\ UNCHANGED meter
  /\ UNCHANGED rec
  /\ UNCHANGED <<hook, resampler, accumulator, hostRead, onmessage,
                 delivered, dropped, isRunning, postFailed, stops, configs,
                 before>>

stopFlushes_Always(bw) == TRUE

\* if (this.bytesWritten > 0) in stop().
stopFlushes(bw) == bw > 0

\* handleMessage({ type: 'stop' }): stop().
Stop(e, fails) ==
  /\ stops[e] < MaxStops
  /\ stops' = [stops EXCEPT ![e] = @ + 1]
  /\ LET flushing == stopFlushes(bytesWritten[e])
         flushed == flushing /\ fails = "ok"
         audio == IF flushed
                  THEN <<FlushMsg(buffer[e], rawBuffer[e], bytesWritten[e])>>
                  ELSE <<>>
         errors == IF flushing /\ fails = "audio" THEN <<ErrorMsg>>
                   ELSE <<>>
         notice == <<StateMsg("stopped")>>
     IN /\ bytesWritten' = [bytesWritten EXCEPT
                              ![e] = IF flushed THEN 0 ELSE @]
        /\ buffer' = [buffer EXCEPT ![e] = IF flushed THEN <<>> ELSE @]
        /\ rawBuffer' = [rawBuffer EXCEPT ![e] = IF flushed THEN <<>> ELSE @]
        /\ posted' = [posted EXCEPT ![e] = @ \o audio \o errors \o notice]
        /\ postFailed' = [postFailed EXCEPT
                            ![e] = @ \/ (flushing /\ fails = "audio")]
  /\ isRunning' = [isRunning EXCEPT ![e] = FALSE]
  /\ state' = [state EXCEPT ![e] = "stopped"]
  /\ pcmOp' = [pcmOp EXCEPT ![e] = "stop"]
  /\ UNCHANGED meter
  /\ UNCHANGED rec
  /\ UNCHANGED <<hook, resampler, bufferSize, hostRead, onmessage,
                 delivered, dropped, processRet, faults, configs, before>>

\* A resample position kept in units of 1 / from, in units of 1 / to.
\* The rates of the model keep the quotient whole.
Rescale(position, from, to) == (position * to) \div from

\* bufferSize and targetSampleRate fields of a config message: 0 stands
\* for a field that is absent or zero.
ConfigSizes == {-1, 0, 3}
ConfigRates == {-1, 0, 8000}

configApplies_Always(value) == TRUE

\* if (bufferSize && bufferSize > 0), if (targetSampleRate &&
\* targetSampleRate > 0): the field is present and positive.
configApplies(value) == value # 0 /\ value > 0

\* handleMessage({ type: 'config', bufferSize: size,
\* targetSampleRate: rate }).
Config(e, size, rate) ==
  /\ configs[e] < MaxConfigs
  /\ configs' = [configs EXCEPT ![e] = @ + 1]
  /\ before' = [before EXCEPT ![e] = Snapshot(e, size, rate)]
  /\ IF configApplies(size)
     THEN /\ bufferSize' = [bufferSize EXCEPT ![e] = size]
          /\ buffer' = [buffer EXCEPT ![e] = <<>>]
          /\ rawBuffer' = [rawBuffer EXCEPT ![e] = <<>>]
          /\ bytesWritten' = [bytesWritten EXCEPT ![e] = 0]
     ELSE UNCHANGED accumulator
  /\ IF configApplies(rate)
     THEN /\ targetSampleRate' = [targetSampleRate EXCEPT ![e] = rate]
          /\ resamplePosition' =
               [resamplePosition EXCEPT
                  ![e] = Rescale(@, targetSampleRate[e], rate)]
     ELSE UNCHANGED <<targetSampleRate, resamplePosition>>
  /\ pcmOp' = [pcmOp EXCEPT ![e] = "config"]
  /\ UNCHANGED meter
  /\ UNCHANGED rec
  /\ UNCHANGED <<hook, inputSampleRate, samplesIn, samplesOut, frameLog,
                 port, state, isRunning, processRet, postFailed, stops,
                 faults>>

\* useAudioRecorder stop(): the stop message is posted and the port's
\* handler removed in the same task.
HostStopBody(e) ==
  /\ onmessage[e]
  /\ onmessage' = [onmessage EXCEPT ![e] = FALSE]
  /\ pcmOp' = [pcmOp EXCEPT ![e] = "hostStop"]
  /\ UNCHANGED meter
  /\ UNCHANGED <<resampler, accumulator, posted, hostRead, delivered,
                 dropped, state, isRunning, processRet, postFailed, stops,
                 faults, configs, before>>

HostStop(e) == HostStopBody(e) /\ UNCHANGED <<hook, rec>>

handlerRuns_Always(set) == TRUE

\* A message event on the host's port runs the handler that is set.
handlerRuns(set) == set

\* The host's port receives the oldest message the engine posted:
\* workletNode.port.onmessage, case 'audio'.
HostReceive(e) ==
  /\ hostRead[e] < Len(posted[e])
  /\ hostRead' = [hostRead EXCEPT ![e] = @ + 1]
  /\ LET m == posted[e][hostRead[e] + 1]
     IN IF m.type = "audio"
        THEN IF handlerRuns(onmessage[e])
             THEN /\ delivered' = [delivered EXCEPT
                                     ![e] = Append(@, m.buffer)]
                  /\ UNCHANGED dropped
             ELSE /\ dropped' = [dropped EXCEPT ![e] = Append(@, m.buffer)]
                  /\ UNCHANGED delivered
        ELSE UNCHANGED <<delivered, dropped>>
  /\ pcmOp' = [pcmOp EXCEPT ![e] = "hostReceive"]
  /\ UNCHANGED meter
  /\ UNCHANGED rec
  /\ UNCHANGED <<hook, resampler, accumulator, posted, onmessage, state,
                 isRunning, processRet, postFailed, stops, faults, configs,
                 before>>

\* The resampler on its own.  Frames are a render quantum, a block of
\* BlockLen samples (the shortest input that 44100 -> 16000 turns into a
\* whole number of output samples) or what is left of such a block after
\* whole quanta.
BlockLen == 44100 \div GCD(44100, DEFAULT_TARGET_SAMPLE_RATE)

FrameLens == {RENDER_QUANTUM, BlockLen, BlockLen % RENDER_QUANTUM}

\* One engine with its host.  Frames are short and the chunk size small,
\* so that chunks fill within a few frames; the context runs at the target
\* rate or at three times the target rate.
EngineRates == {DEFAULT_TARGET_SAMPLE_RATE, 3 * DEFAULT_TARGET_SAMPLE_RATE}

EngineSizes == {2, 3}

EngineFrameLens == {3, 6}

\* Frames that carry sample values are of one length, which fills a chunk
\* at either rate.
SampleFrameLens == {6}

\* Sample values fed: -2.0, -1.0, -0.5, 0, 0.5, 1.0, 2.0, the infinities
\* and NaN.
SampleValues ==
  {-2 * SAMPLE_UNIT, -SAMPLE_UNIT, -1, 0, 1, SAMPLE_UNIT, 2 * SAMPLE_UNIT,
   INFINITY, -INFINITY, NAN}

\* ----------------------------------------------------------- useRecording
\* Everything of the transport client that startRecording leaves alone.
RecFrame(op) ==
  /\ NoControl
  /\ NoMessage
  /\ Observe(op)
  /\ onErrorArg' = "none"
  /\ onHealthChangeArg' = "none"
  /\ UNCHANGED <<options, lastCloseCode, configSentRef, sessionId,
                 pingIntervalRef, pingTimeoutRef, pendingTimeouts,
                 missedPingsRef, connectionHealth, error, audioQueueRef,
                 isProcessingQueueRef, wire, nextChunk, notOpenLog,
                 armedBeforePong, renderError>>

\* startRecording() up to its first await: the transcript is cleared
\* (clearTranscription) and connect() is called; with a connection
\* already wanted, connect() changes nothing.
StartRecordingBegin ==
  /\ recPc = "idle"
  /\ shouldConnect \/ (~renderedShouldConnect
                        /\ wsState \in {"NONE", "CLOSED"})
  /\ recPc' = "connecting"
  /\ recOp' = "starting"
  /\ waited' = 0
  /\ maxWait' = START_MAX_WAIT
  /\ interimText' = <<>>
  /\ finalizedSegments' = <<>>
  /\ fullTranscript' = <<>>
  /\ moderationResults' = <<>>
  /\ arrivedFinals' = <<>>
  /\ arrivedModeration' = <<>>
  /\ IF shouldConnect
     THEN UNCHANGED <<shouldConnect, renderedShouldConnect, reconnectCount,
                      wsState, readyState, reconnectPending>>
     ELSE /\ shouldConnect' = TRUE
          /\ renderedShouldConnect' = TRUE
          /\ reconnectCount' = 0
          /\ wsState' = "CONNECTING"
          /\ readyState' = "CONNECTING"
          /\ reconnectPending' = FALSE
  /\ RecFrame("startRecording")
  /\ UNCHANGED <<isRecording, capturing, stableTime, lastTranscriptLength,
                 hadAnyData, polledTranscript, unchangedFor>>
  /\ UNCHANGED pcm

\* One turn of waitForConnection: the readyState check, and the sleep of
\* START_CHECK_INTERVAL when the connection is not open.  When the loop
\* runs out, startRecording throws into its catch block.
StartPoll ==
  /\ recPc = "connecting"
  /\ IF readyState = "OPEN"
     THEN /\ recPc' = "starting"
          /\ UNCHANGED <<waited, isRecording, recOp>>
     ELSE /\ waited' = waited + START_CHECK_INTERVAL
          /\ IF waited' < maxWait
             THEN UNCHANGED <<recPc, isRecording, recOp>>
             ELSE /\ recPc' = "idle"
                  /\ isRecording' = FALSE
                  /\ recOp' = "startTimedOut"
  /\ UNCHANGED <<capturing, maxWait, stableTime, lastTranscriptLength,
                 hadAnyData, polledTranscript, unchangedFor>>
  /\ UNCHANGED <<hook, pcm>>

\* How useAudioRecorder.start() can end: with the microphone connected to
\* the worklet node, or in its catch block (permission denied, no
\* device, any other error), or with initialize() having failed.
CaptureOutcomes == {"started", "NotAllowedError", "NotFoundError",
                    "initFailed"}

\* await audioRecorderRef.current.start() settles, and startRecording
\* runs to its end.  start() reports its errors through onError and its
\* own state; its promise is fulfilled in every case.
StartCapture(outcome) ==
  /\ recPc = "starting"
  /\ capturing' = (outcome = "started")
  /\ isRecording' = TRUE
  /\ recPc' = "idle"
  /\ recOp' = "started"
  /\ UNCHANGED <<waited, maxWait, stableTime, lastTranscriptLength,
                 hadAnyData, polledTranscript, unchangedFor>>
  /\ UNCHANGED <<hook, pcm>>

\* getRecommendedTimeout: Math.max(maxLatency * 2, 5000)
getRecommendedTimeout(maxLatency) == IF maxLatency * 2 > MIN_STOP_WAIT
                                     THEN maxLatency * 2 ELSE MIN_STOP_WAIT

\* The wait loop of stopRecording ends: break when the transcript has
\* been stable for the threshold after some data, or waited has reached
\* maxWait.
stopWaitOver(stable, had, w, limit) ==
  (stable >= STABLE_THRESHOLD /\ had) \/ w >= limit

\* The end of stopRecording: disconnect() and setIsRecording(false).
StopRecordingEnd(how) ==
  /\ DisconnectBody
  /\ isRecording' = FALSE
  /\ recPc' = "idle"
  /\ recOp' = how

\* stopRecording() up to its first await: the recorder's stop(), flush(),
\* and either the start of the wait loop or, when flush() returned false,
\* the end of the operation.
StopRecordingBegin ==
  /\ recPc = "idle"
  /\ capturing' = FALSE
  /\ IF onmessage["p1"] THEN HostStopBody("p1") ELSE UNCHANGED pcm
  /\ IF flushAllowed(readyState)
     THEN /\ FlushBody
          /\ recPc' = "waiting"
          /\ recOp' = "stopping"
          /\ waited' = 0
          /\ maxWait' = Max(getRecommendedTimeout(STREAMING_MAX_LATENCY),
                         MIN_STOP_WAIT)
          /\ lastTranscriptLength' = Len(fullTranscript)
          /\ stableTime' = 0
          /\ hadAnyData' = (Len(fullTranscript) > 0)
          /\ polledTranscript' = fullTranscript
          /\ unchangedFor' = 0
          /\ UNCHANGED isRecording
     ELSE /\ StopRecordingEnd("stoppedNoFlush")
          /\ UNCHANGED <<waited, maxWait, stableTime, lastTranscriptLength,
                         hadAnyData, polledTranscript, unchangedFor>>

\* One turn of the wait loop of stopRecording, STOP_CHECK_INTERVAL after
\* the one before, and the end of the operation when the loop is over.
StopPoll ==
  /\ recPc = "waiting"
  /\ LET w == waited + STOP_CHECK_INTERVAL
         currentLength == Len(fullTranscript)
         changed == currentLength # lastTranscriptLength
         stable == IF changed THEN 0 ELSE stableTime + STOP_CHECK_INTERVAL
         had == hadAnyData \/ changed
     IN /\ waited' = w
        /\ lastTranscriptLength' = currentLength
        /\ stableTime' = stable
        /\ hadAnyData' = had
        /\ polledTranscript' = fullTranscript
        /\ unchangedFor' =
             IF fullTranscript # polledTranscript THEN 0
             ELSE Min(unchangedFor + STOP_CHECK_INTERVAL, STABLE_THRESHOLD)
        /\ IF stopWaitOver(stable, had, w, maxWait)
           THEN StopRecordingEnd(IF stable >= STABLE_THRESHOLD /\ had
                                 THEN "stoppedStable" ELSE "stoppedTimeout")
           ELSE UNCHANGED <<hook, isRecording, recPc, recOp>>
  /\ UNCHANGED <<capturing, maxWait>>
  /\ UNCHANGED pcm

Next ==
  \/ Connect
  \/ Reconnect
  \/ WsOpen
  \/ WsOpenEvent
  \/ RenderOpen
  \/ WsClosing
  \/ \E code \in CloseCodes : WsClose(code)
  \/ WsError
  \/ Disconnect
  \/ RenderDisconnect
  \/ OptionsChange
  \/ Flush
  \/ \E failAt \in 0..maxQueueSize, curFails \in BOOLEAN :
        SendAudio(failAt, curFails)
  \/ PingTick
  \/ PingTimeout
  \/ WsPong
  \/ \E m \in Messages : WsMessage(m)
  \/ \E m \in Messages : WsMessageEvent(m)
  \/ RenderMessage
  \/ CallbacksChange
  \/ ClearTranscription
  \/ \E e \in Engines, len \in FrameLens, roundsBelow \in BOOLEAN,
        v \in SampleValues, fails \in PostOutcomes :
        Process(e, len, roundsBelow, v, fails)
  \/ \E e \in Engines : ProcessEmpty(e)
  \/ \E e \in Engines : ProcessAfterStop(e)
  \/ \E e \in Engines : ProcessFault(e)
  \/ \E e \in Engines, fails \in PostOutcomes : Stop(e, fails)
  \/ \E e \in Engines, size \in ConfigSizes, rate \in ConfigRates :
        Config(e, size, rate)
  \/ \E e \in Engines : HostStop(e)
  \/ \E e \in Engines : HostReceive(e)
  \/ StartRecordingBegin
  \/ StartPoll
  \/ \E outcome \in CaptureOutcomes : StartCapture(outcome)
  \/ StopRecordingBegin
  \/ StopPoll

Spec == Init /\ [][Next]_vars

\* The audio path on its own: the connection life cycle, sendAudio and
\* flush.
\* The heartbeat operations neither read nor write the queue, the wire or
\* the socket state.
NextQueue ==
  \/ Connect
  \/ Reconnect
  \/ WsOpen
  \/ WsClosing
  \/ \E code \in CloseCodes : WsClose(code)
  \/ WsError
  \/ Disconnect
  \/ RenderDisconnect
  \/ \E failAt \in 0..maxQueueSize, curFails \in BOOLEAN :
        SendAudio(failAt, curFails)
  \/ Flush

SpecQueue == Init /\ [][NextQueue]_vars

\* The heartbeat on its own: the connection life cycle, the ping timers
\* and the pong.  sendAudio and flush neither read nor write the
\* heartbeat state.
NextHeartbeat ==
  \/ Connect
  \/ Reconnect
  \/ WsOpen
  \/ WsClosing
  \/ \E code \in CloseCodes : WsClose(code)
  \/ WsError
  \/ Disconnect
  \/ RenderDisconnect
  \/ OptionsChange
  \/ PingTick
  \/ PingTimeout
  \/ WsPong

SpecHeartbeat == Init /\ [][NextHeartbeat]_vars

\* The heartbeat next to the audio path, for what heartbeat events leave
\* alone: connect, open, close and disconnect, sendAudio, the ping timers
\* and the pong.
NextHeartbeatAudio ==
  \/ Connect
  \/ WsOpen
  \/ \E code \in CloseCodes : WsClose(code)
  \/ Disconnect
  \/ RenderDisconnect
  \/ \E failAt \in 0..maxQueueSize, curFails \in BOOLEAN :
        SendAudio(failAt, curFails)
  \/ PingTick
  \/ PingTimeout
  \/ WsPong

SpecHeartbeatAudio == Init /\ [][NextHeartbeatAudio]_vars

\* Message handling on its own: connect, open, close and disconnect, the
\* pong and the messages that pass the filter, and clearTranscription.
\* Message handling reads neither enableQueue nor heartbeatInterval.
InitMessages ==
  /\ enableQueue = TRUE
  /\ heartbeatInterval = DEFAULT_HEARTBEAT_INTERVAL
  /\ InitHook
  /\ InitRec
  /\ InitPcm(DEFAULT_TARGET_SAMPLE_RATE)

NextMessages ==
  \/ Connect
  \/ WsOpen
  \/ \E code \in CloseCodes : WsClose(code)
  \/ Disconnect
  \/ RenderDisconnect
  \/ WsPong
  \/ \E m \in Messages : WsMessage(m)
  \/ ClearTranscription

SpecMessages == InitMessages /\ [][NextMessages]_vars

\* The messages the server sends during a session: transcription messages
\* with their text, and moderation messages.
SessionMessages ==
  {m \in Messages :
     m.json /\ (\/ m.type = "moderation"
                \/ m.type = "transcription" /\ m.text # UNDEFINED)}

\* Message handling during one session, when React renders in a later
\* task than the message event, and when a render brings new callbacks.
NextInbox ==
  \/ Connect
  \/ WsOpen
  \/ \E m \in SessionMessages : WsMessageEvent(m)
  \/ RenderMessage
  \/ CallbacksChange

SpecInbox == InitMessages /\ [][NextInbox]_vars

InitResample ==
  /\ enableQueue = TRUE
  /\ heartbeatInterval = DEFAULT_HEARTBEAT_INTERVAL
  /\ InitHook
  /\ InitRec
  /\ \E rate \in SampleRates : InitPcm(rate)

NextResample ==
  \E e \in Engines, len \in FrameLens, roundsBelow \in BOOLEAN :
     Process(e, len, roundsBelow, 0, "ok")

SpecResample == InitResample /\ [][NextResample]_vars

\* The resample position: one engine fed with frames of a render quantum
\* and frames shorter than the ratio.
PositionFrameLens == {1, 2, RENDER_QUANTUM}

NextPosition ==
  \E len \in PositionFrameLens, roundsBelow \in BOOLEAN :
     /\ Len(frameLog["p1"]) < MaxFrames
     /\ Process("p1", len, roundsBelow, 0, "ok")

SpecPosition == InitResample /\ [][NextPosition]_vars

\* One engine and the messages it handles.
InitEngine ==
  /\ enableQueue = TRUE
  /\ heartbeatInterval = DEFAULT_HEARTBEAT_INTERVAL
  /\ InitHook
  /\ InitRec
  /\ \E rate \in EngineRates, size \in EngineSizes :
        PcmConstructed(rate, size)

NextEngine ==
  \/ \E len \in EngineFrameLens, fails \in PostOutcomes :
        /\ samplesOut["p1"] < MaxAppended
        /\ Process("p1", len, FALSE, 0, fails)
  \/ ProcessEmpty("p1")
  \/ ProcessAfterStop("p1")
  \/ ProcessFault("p1")
  \/ \E fails \in PostOutcomes : Stop("p1", fails)
  \/ \E size \in ConfigSizes, rate \in ConfigRates : Config("p1", size, rate)

SpecEngine == InitEngine /\ [][NextEngine]_vars

\* The resampler under reconfiguration: frames that leave a position
\* other than 0, and config messages that carry a target rate.
NextReconfig ==
  \/ \E len \in PositionFrameLens :
        /\ Len(frameLog["p1"]) < MaxFrames
        /\ Process("p1", len, FALSE, 0, "ok")
  \/ \E rate \in ConfigRates : Config("p1", 0, rate)

SpecReconfig == InitEngine /\ [][NextReconfig]_vars

\* The accumulator under reconfiguration: frames, and config messages
\* with either field, both or none.
NextConfig ==
  \/ \E len \in EngineFrameLens :
        /\ samplesOut["p1"] < MaxAppended
        /\ Process("p1", len, FALSE, 0, "ok")
  \/ \E size \in ConfigSizes, rate \in ConfigRates : Config("p1", size, rate)

SpecConfig == InitEngine /\ [][NextConfig]_vars

\* The level meter: an engine whose context runs at half the target rate
\* or at the target rate, fed with render quanta of every kind of sample
\* value; the chunk size is not a divisor of the level interval.
LevelRates == {DEFAULT_TARGET_SAMPLE_RATE \div 2, DEFAULT_TARGET_SAMPLE_RATE}

LevelSizes == {3 * RENDER_QUANTUM}

LevelValues == {0, 1, SAMPLE_UNIT, 2 * SAMPLE_UNIT, NAN}

InitLevel ==
  /\ enableQueue = TRUE
  /\ heartbeatInterval = DEFAULT_HEARTBEAT_INTERVAL
  /\ InitHook
  /\ InitRec
  /\ \E rate \in LevelRates, size \in LevelSizes :
        PcmConstructed(rate, size)

NextLevel ==
  \E v \in LevelValues : Process("p1", RENDER_QUANTUM, FALSE, v, "ok")

SpecLevel == InitLevel /\ [][NextLevel]_vars

\* The engine with the recorder that hosts it: frames, stop messages and
\* the host's side of the port.
NextCapture ==
  \/ \E len \in EngineFrameLens :
        /\ samplesOut["p1"] < MaxAppended
        /\ Process("p1", len, FALSE, 0, "ok")
  \/ Stop("p1", "ok")
  \/ HostStop("p1")
  \/ HostReceive("p1")

SpecCapture == InitEngine /\ [][NextCapture]_vars

\* The accumulator on its own: frames, stop messages and config messages
\* that carry a chunk size, with posts of chunks that may throw.
NextAccumulator ==
  \/ \E len \in EngineFrameLens, fails \in PostOutcomes :
        /\ samplesOut["p1"] < MaxAppended
        /\ Process("p1", len, FALSE, 0, fails)
  \/ \E fails \in PostOutcomes : Stop("p1", fails)
  \/ \E size \in ConfigSizes : Config("p1", size, 0)

SpecAccumulator == InitEngine /\ [][NextAccumulator]_vars

\* The engine fed with frames of every sample value: frames, missing
\* input, faults and stop.
NextSamples ==
  \/ \E len \in SampleFrameLens, v \in SampleValues :
        /\ samplesOut["p1"] < MaxAppended
        /\ Process("p1", len, FALSE, v, "ok")
  \/ ProcessEmpty("p1")
  \/ ProcessAfterStop("p1")
  \/ ProcessFault("p1")
  \/ Stop("p1", "ok")

SpecSamples == InitEngine /\ [][NextSamples]_vars

\* startRecording on its own: the connection it waits for and the ways
\* the recorder's start() can end.
NextStartRecording ==
  \/ StartRecordingBegin
  \/ StartPoll
  \/ \E outcome \in CaptureOutcomes : StartCapture(outcome)
  \/ WsOpen
  \/ \E code \in CloseCodes : WsClose(code)
  \/ Reconnect

SpecStartRecording == InitMessages /\ [][NextStartRecording]_vars

\* Results that arrive while stopRecording waits: interim texts of one
\* length.
StopMessages ==
  {Msg(TRUE, "transcription", t, FALSE, FALSE, "none") :
     t \in {<<"a">>, <<"b">>}}

\* stopRecording on its own: a connection, the results that arrive on it,
\* its close, and the operation.  The timer of the wait loop fires as
\* long as the loop runs.
NextStopRecording ==
  \/ Connect
  \/ WsOpen
  \/ \E code \in CloseCodes : WsClose(code)
  \/ RenderDisconnect
  \/ \E m \in StopMessages : WsMessage(m)
  \/ StopRecordingBegin
  \/ StopPoll

SpecStopRecording ==
  InitMessages /\ [][NextStopRecording]_vars /\ WF_vars(StopPoll)

\* The audio path around the open event, which React renders either in the
\* same task (WsOpen) or in a later one (WsOpenEvent, RenderOpen).
NextOpening ==
  \/ Connect
  \/ Reconnect
  \/ WsOpen
  \/ WsOpenEvent
  \/ RenderOpen
  \/ \E code \in CloseCodes : WsClose(code)
  \/ Disconnect
  \/ RenderDisconnect
  \/ \E failAt \in 0..maxQueueSize, curFails \in BOOLEAN :
        SendAudio(failAt, curFails)

SpecOpening == Init /\ [][NextOpening]_vars

\* The connection life cycle on its own, with the control operations.
NextConnection ==
  \/ Connect
  \/ Reconnect
  \/ WsOpen
  \/ WsClosing
  \/ \E code \in CloseCodes : WsClose(code)
  \/ WsError
  \/ Disconnect
  \/ RenderDisconnect
  \/ OptionsChange
  \/ Flush

SpecConnection == Init /\ [][NextConnection]_vars

\* ------------------------------------------------------------- properties

\* C1: audio chunks reach the socket in the order they were passed to
\* sendAudio: the frames written are in increasing submission order, and no
\* frame has been written while an earlier-submitted chunk is still waiting
\* in the queue.
C1_WireInSubmissionOrder ==
  /\ \A i, j \in DOMAIN wire : i < j => wire[i] < wire[j]
  /\ \A i \in DOMAIN audioQueueRef, j \in DOMAIN wire :
        wire[j] < audioQueueRef[i]

\* C2: when the connection opens after more than maxQueueSize chunks were
\* accepted while it was not open, the open writes exactly the last
\* maxQueueSize of them to the socket, in their original order.
C2_QueuedDeliveredOnOpen ==
  (lastOp = "open" /\ Len(acceptedAtOpen) > maxQueueSize)
    => openDelivered = LastN(acceptedAtOpen, maxQueueSize)

\* C3: the queue never holds more than maxQueueSize chunks.
C3_QueueBounded == Len(audioQueueRef) <= maxQueueSize

C3_Witness ==
  /\ lastOp = "sendAudio"
  /\ Len(audioQueueRef) = maxQueueSize
  /\ Len(notOpenLog) > maxQueueSize

\* C4: after more than maxQueueSize chunks have been pushed while the
\* connection is not open, the queue holds exactly the maxQueueSize most
\* recently pushed chunks, in push order.
C4_KeepsMostRecent ==
  Len(notOpenLog) > maxQueueSize
    => audioQueueRef = LastN(notOpenLog, maxQueueSize)

C4_Witness ==
  /\ readyState # "OPEN"
  /\ ret = "true"
  /\ Len(notOpenLog) = maxQueueSize + 2
  /\ Head(audioQueueRef) = notOpenLog[3]

\* C5: after a sendAudio in which a send threw (queuing enabled), every
\* undelivered buffer is in the queue with a failed one at its front, the
\* front is the next chunk to be written (nothing submitted after it is on
\* the wire) and the queue is in submission order.
C5_FailedSendRequeuedAtFront ==
  (lastOp = "sendAudio" /\ enableQueue /\ sendFailed # {})
    => /\ sendFailed \subseteq Range(audioQueueRef)
       /\ Len(audioQueueRef) > 0
       /\ Head(audioQueueRef) \in sendFailed
       /\ \A j \in DOMAIN wire : wire[j] < Head(audioQueueRef)
       /\ \A i, j \in DOMAIN audioQueueRef :
             i < j => audioQueueRef[i] < audioQueueRef[j]

\* C6: with queuing enabled, sendAudio called while the socket is not open
\* appends the buffer to the queue and returns true, also when the cached
\* readyState still says OPEN.
C6_QueuedWheneverSocketNotOpen ==
  (lastOp = "sendAudio" /\ enableQueue /\ wsState # "OPEN")
    => /\ ret = "true"
       /\ Len(audioQueueRef) > 0
       /\ audioQueueRef[Len(audioQueueRef)] = lastBuf

\* C7: sendAudio returns true exactly when the buffer was written to the
\* socket or is retained in the queue.
C7_TrueIffSentOrQueued ==
  lastOp = "sendAudio"
    => ((ret = "true") <=>
          (lastBuf \in Range(wire) \/ lastBuf \in Range(audioQueueRef)))

\* C8: after every ping timeout and every pong, health is the
\* classification of the missed-ping counter (0 healthy, 1..2 degraded,
\* 3 or more unhealthy), and a ping timeout increments the counter by one.
C8_HealthFollowsMissedPings ==
  /\ [](lastOp \in {"pingTimeout", "pong"} =>
          /\ missedPingsRef = 0 => connectionHealth = "healthy"
          /\ missedPingsRef \in 1..2 => connectionHealth = "degraded"
          /\ missedPingsRef >= 3 => connectionHealth = "unhealthy")
  /\ [][lastOp' = "pingTimeout" => missedPingsRef' = missedPingsRef + 1]_vars

C8_Witness ==
  /\ lastOp = "pingTimeout"
  /\ missedPingsRef = 4
  /\ connectionHealth = "unhealthy"

\* C9: after a pong the missed-ping count is 0 and health is healthy, and
\* no ping-timeout timer armed before a processed pong fires afterwards.
C9_PongCancelsEarlierTimeouts ==
  /\ lastOp = "pong" =>
        (missedPingsRef = 0 /\ connectionHealth = "healthy")
  /\ lastOp = "pingTimeout" => ~firedStale

\* C10: a ping timeout that brings the missed-ping count to the unhealthy
\* threshold or beyond stores the connection-appears-dead error and passes
\* it to onError; no heartbeat event closes the socket, changes
\* shouldConnect or alters the queue.
C10_DeadErrorWithoutClosing ==
  /\ []((lastOp = "pingTimeout" /\ missedPingsRef >= UNHEALTHY_THRESHOLD)
          => (error = ERR_DEAD /\ onErrorArg = ERR_DEAD))
  /\ [][lastOp' \in {"pingTick", "pingTimeout", "pong"}
          => UNCHANGED <<wsState, shouldConnect, audioQueueRef>>]_vars

C10_Witness ==
  /\ lastOp = "pingTimeout"
  /\ missedPingsRef = UNHEALTHY_THRESHOLD
  /\ error = ERR_DEAD
  /\ wsState = "OPEN"
  /\ Len(audioQueueRef) > 0

C13_NoHeartbeatAfterDisconnect ==
  /\ lastOp = "disconnect" => audioQueueRef = <<>>
  /\ lastOp \in {"pingTick", "pingTimeout"} => shouldConnect

\* C14: each time the connection reaches open the client sends exactly one
\* config, then one start_session carrying the newly generated session id,
\* then one ping, and arms the periodic ping timer; config and
\* start_session are sent by no other operation, so none of this happens
\* twice for one open.
C14_OneConfigPerOpen ==
  /\ lastOp = "open" =>
        /\ ctrlSent = <<"config", "start_session", "ping">>
        /\ sentSessionId = sessionId
        /\ sessionId \in SessionIds
        /\ pingIntervalRef
  /\ lastOp # "open" =>
        /\ "config" \notin Range(ctrlSent)
        /\ "start_session" \notin Range(ctrlSent)

WellFormedTranscription(m) ==
  m.json /\ m.type = "transcription" /\ m.text # UNDEFINED

\* The finalized segments followed by the interim text, the empty ones
\* left out, joined with single spaces.
JoinedTranscript(segments, interim) ==
  join(SelectSeq(segments \o <<interim>>, LAMBDA t : t # <<>>))

\* C15 as stated: a non-final transcription message replaces the interim
\* text and leaves the segments alone; a final one appends its text to the
\* segments and clears the interim text; the full transcript is then the
\* segments followed by the interim text, joined.
C15_FinalAppendsItsText ==
  [][(lastOp' = "message" /\ WellFormedTranscription(lastMsg')) =>
       /\ ~lastMsg'.is_final =>
            /\ interimText' = lastMsg'.text
            /\ finalizedSegments' = finalizedSegments
       /\ lastMsg'.is_final =>
            /\ finalizedSegments' = Append(finalizedSegments, lastMsg'.text)
            /\ interimText' = <<>>
       /\ fullTranscript' = JoinedTranscript(finalizedSegments', interimText')
    ]_vars

\* C15, amended: a non-final transcription message replaces the interim
\* text and leaves the segments alone; a final one appends its trimmed
\* text to the segments, or nothing when the trimmed text is empty, and
\* clears the interim text; the full transcript is then the segments
\* followed by the interim text, the empty ones left out, joined with
\* single spaces.
C15_FinalAppendsTrimmedText ==
  [][(lastOp' = "message" /\ WellFormedTranscription(lastMsg')) =>
       /\ ~lastMsg'.is_final =>
            /\ interimText' = lastMsg'.text
            /\ finalizedSegments' = finalizedSegments
       /\ lastMsg'.is_final =>
            /\ finalizedSegments' =
                 IF trim(lastMsg'.text) = <<>> THEN finalizedSegments
                 ELSE Append(finalizedSegments, trim(lastMsg'.text))
            /\ interimText' = <<>>
       /\ fullTranscript' = JoinedTranscript(finalizedSegments', interimText')
    ]_vars

C15_Witness ==
  /\ lastOp = "message"
  /\ lastMsg = Msg(TRUE, "transcription", <<" ", "a">>, TRUE, FALSE, "none")
  /\ finalizedSegments = << <<"a", "a">>, <<"a">> >>
  /\ interimText = <<>>
  /\ fullTranscript = <<"a", "a", " ", "a">>

\* C16: a message whose type is none of transcription, moderation and pong
\* leaves interim text, segments, full transcript and moderation history
\* unchanged and invokes neither callback.
C16_OtherTypesIgnored ==
  [][(/\ lastOp' = "message"
      /\ lastMsg'.json
      /\ lastMsg'.type \in {"session_started", "session_ended", "error",
                            "unknown"})
       => /\ UNCHANGED <<interimText, finalizedSegments, fullTranscript,
                         moderationResults>>
          /\ ~onTranscriptionCalled'
          /\ ~onModerationCalled'
    ]_vars

\* A payload that is not JSON, or a transcription message without text.
Malformed(m) ==
  \/ ~m.json
  \/ (m.type = "transcription" /\ m.text = UNDEFINED)

\* C17: a malformed payload raises nothing out of message handling, leaves
\* transcript and moderation state unchanged and the connection open.
C17_MalformedSwallowed ==
  /\ [](~renderError)
  /\ [][(lastOp' = "message" /\ Malformed(lastMsg'))
          => /\ UNCHANGED <<interimText, finalizedSegments, fullTranscript,
                            moderationResults>>
             /\ wsState' = "OPEN"
       ]_vars

\* C18: no message of type pong changes interim text, segments, full
\* transcript or moderation history, and none reaches the transcription
\* or moderation callback.
C18_PongNeverSurfaced ==
  [][(lastMsg'.json /\ lastMsg'.type = "pong")
       => /\ UNCHANGED <<interimText, finalizedSegments, fullTranscript,
                         moderationResults>>
          /\ ~onTranscriptionCalled'
          /\ ~onModerationCalled'
    ]_vars

\* C20: feeding N input samples at input rate R and target rate T
\* produces floor(N / (R/T)) output samples, give or take one, and the
\* count does not depend on how the N samples are cut into frames: two
\* processors that were fed the same number of samples produced the same
\* number of output samples.
C20_CountIndependentOfSplit ==
  /\ \A e \in Engines :
        LET expected ==
              (samplesIn[e] * targetSampleRate[e]) \div inputSampleRate
        IN samplesOut[e] \in {expected - 1, expected, expected + 1}
  /\ (samplesIn["p1"] = samplesIn["p2"] /\ frameLog["p1"] # frameLog["p2"])
        => samplesOut["p1"] = samplesOut["p2"]

\* ---------------------------------------------------------------- engine
\* The audio notifications an engine has posted, in order.
AudioPosted(e) == SelectSeq(posted[e], LAMBDA m : m.type = "audio")

NewlyPosted(e) == SubSeq(posted'[e], Len(posted[e]) + 1, Len(posted'[e]))

C23_AccumulatorWithinChunkSize ==
  \A e \in Engines :
     /\ bytesWritten[e] < bufferSize[e]
     /\ configs[e] = 0 =>
           \A i \in 1..Len(AudioPosted(e)) :
              Len(AudioPosted(e)[i].buffer) <= bufferSize[e]

\* C24: every audio notification an engine posted reaches onAudioData:
\* when the host's port receives one, before or after the recorder was
\* stopped, its buffer is handed to the audio-data callback.
C24_EveryChunkDelivered ==
  [][ \A e \in Engines :
        (/\ hostRead'[e] = hostRead[e] + 1
         /\ posted[e][hostRead[e] + 1].type = "audio") =>
           delivered'[e] =
              Append(delivered[e], posted[e][hostRead[e] + 1].buffer)
    ]_vars

\* C25: every process() call on an engine that has not stopped returns
\* the keep-running value, whether it was given a frame, no input or an
\* empty frame, or raised a fault; a fault posts an error notification,
\* and the engine still is running afterwards, so that later frames are
\* processed.
C25_ProcessKeepsRunning ==
  [][ \A e \in Engines :
        (pcmOp'[e] \in {"process", "processEmpty", "fault"} /\ isRunning[e]
         /\ <<pcmOp[e], processRet[e], samplesIn[e], faults[e]>> #
              <<pcmOp'[e], processRet'[e], samplesIn'[e], faults'[e]>>) =>
           /\ processRet'[e] = "true"
           /\ isRunning'[e]
           /\ faults'[e] > faults[e] =>
                 /\ NewlyPosted(e) = <<ErrorMsg>>
                 /\ UNCHANGED <<accumulator, resamplePosition>>
    ]_vars

\* A frame was processed after a fault.
C25_Witness ==
  /\ faults["p1"] > 0
  /\ pcmOp["p1"] = "process"
  /\ processRet["p1"] = "true"
  /\ samplesOut["p1"] > 0
  /\ state["p1"] = "error"
  /\ \E i \in 1..Len(AudioPosted("p1")) :
        NAN \in Range(AudioPosted("p1")[i].raw)

\* C26: a config message with a bufferSize or targetSampleRate below zero
\* posts an error notification and leaves chunk size, target rate (and
\* with it the ratio) and the accumulator as they were.
C26_InvalidConfigReported ==
  [][ \A e \in Engines :
        (/\ configs'[e] = configs[e] + 1
         /\ (before'[e].size < 0 \/ before'[e].rate < 0)) =>
           /\ NewlyPosted(e) = <<ErrorMsg>>
           /\ bufferSize'[e] = bufferSize[e]
           /\ targetSampleRate'[e] = targetSampleRate[e]
           /\ bytesWritten'[e] = bytesWritten[e]
           /\ buffer'[e] = buffer[e]
    ]_vars

\* C27: stopped and error are terminal: once an engine's state is one of
\* them, no operation changes it.
C27_TerminalStates ==
  [][ \A e \in Engines :
        state[e] \in {"stopped", "error"} => state'[e] = state[e]
    ]_vars

\* C28: every value of a posted chunk lies in [-32768, 32767] and is the
\* saturated image of the sample addSample received: a sample of 1.0 or
\* more, +Infinity included, gives 32767, a sample of -1.0 or less gives
\* -32768, a sample in between keeps its sign, and NaN gives 0.
C28_QuantizedWithinInt16 ==
  \A e \in Engines :
     \A i \in 1..Len(AudioPosted(e)) :
        LET chunk == AudioPosted(e)[i]
        IN /\ Len(chunk.raw) = Len(chunk.buffer)
           /\ \A j \in 1..Len(chunk.buffer) :
                 LET sample == chunk.raw[j]
                     value == chunk.buffer[j]
                 IN /\ value \in INT16_MIN..INT16_MAX
                    /\ sample = NAN => value = 0
                    /\ (sample # NAN /\ sample >= SAMPLE_UNIT) =>
                          value = INT16_MAX
                    /\ sample <= -SAMPLE_UNIT => value = INT16_MIN
                    /\ (sample > -SAMPLE_UNIT /\ sample < 0) =>
                          (value > INT16_MIN /\ value <= 0)
                    /\ (sample >= 0 /\ sample < SAMPLE_UNIT) =>
                          (value >= 0 /\ value < INT16_MAX)

\* Chunks were posted that hold a sample beyond 1.0, one beyond -1.0 and
\* NaN.
C28_Witness ==
  /\ \E i \in 1..Len(AudioPosted("p1")) :
        /\ 2 * SAMPLE_UNIT \in Range(AudioPosted("p1")[i].raw)
        /\ INT16_MAX \in Range(AudioPosted("p1")[i].buffer)
  /\ \E i \in 1..Len(AudioPosted("p1")) :
        /\ -2 * SAMPLE_UNIT \in Range(AudioPosted("p1")[i].raw)
        /\ INT16_MIN \in Range(AudioPosted("p1")[i].buffer)
  /\ \E i \in 1..Len(AudioPosted("p1")) :
        NAN \in Range(AudioPosted("p1")[i].raw)

\* ------------------------------------------------------------ session id
\* C29: once disconnect() has been called and rendered and the socket has
\* reported its close, the exposed session id is null.
C29_NoSessionAfterDisconnect ==
  (~shouldConnect /\ ~renderedShouldConnect /\ wsState = "CLOSED"
   /\ readyState = "CLOSED") =>
     sessionId = "null"

C31_EveryMessageAppliedOnce ==
  ~effectPending =>
     /\ finalizedSegments = arrivedFinals
     /\ moderationResults = arrivedModeration

\* C32: in every reachable state of the transport client, also after a
\* socket error, after open and after close, connection health is the
\* classification of the current missed-ping counter (0 healthy, 1..2
\* degraded, 3 or more unhealthy).
C32_HealthIsClassOfCounter ==
  connectionHealth = updateConnectionHealth(missedPingsRef)

\* C33: every change of connection health (to degraded, to unhealthy, back
\* to healthy after a pong or a new open) invokes onHealthChange once with
\* the new value, and the callback is not invoked when health does not
\* change.
C33_CallbackOnEveryHealthChange ==
  [][ /\ connectionHealth' # connectionHealth
           => onHealthChangeArg' = connectionHealth'
      /\ connectionHealth' = connectionHealth
           => onHealthChangeArg' = "none"
    ]_vars

\* The frame the engine has just processed: its length, and whether it
\* went through the interpolation loop.
FrameTaken(e) == frameLog'[e] # frameLog[e]

TakenLen(e) == frameLog'[e][Len(frameLog'[e])]

Resampled(e) == ~noResampling(inputSampleRate, targetSampleRate[e])

\* Between two frames the position moves by the ratio once per sample
\* produced, less the length of the frame consumed (in units of
\* 1 / targetSampleRate of an input sample).
PositionContinues(e) ==
  resamplePosition'[e] =
    IF Resampled(e)
    THEN resamplePosition[e]
           + (samplesOut'[e] - samplesOut[e]) * inputSampleRate
           - TakenLen(e) * targetSampleRate[e]
    ELSE resamplePosition[e]

\* C34 as stated: at the start of every frame the resample position is at
\* least 0 and less than that frame's length, whatever the frame lengths
\* and the ratio; between frames it changes only by adding the ratio and
\* subtracting the consumed frame's length.
C34_PositionWithinFrame ==
  [][\A e \in Engines : FrameTaken(e) =>
        /\ resamplePosition[e] >= 0
        /\ resamplePosition[e] < TakenLen(e) * targetSampleRate[e]
        /\ PositionContinues(e)
    ]_vars

\* C34, amended: at the start of every frame the resample position is at
\* least 0 and at most the ratio, so less than the length of every frame
\* longer than the ratio; between frames it changes only by adding the
\* ratio once per sample produced and subtracting the consumed frame's
\* length.
C34_PositionWithinRatio ==
  [][\A e \in Engines : FrameTaken(e) =>
        /\ resamplePosition[e] >= 0
        /\ resamplePosition[e] <= inputSampleRate
        /\ (TakenLen(e) * targetSampleRate[e] > inputSampleRate
              => resamplePosition[e] < TakenLen(e) * targetSampleRate[e])
        /\ resamplePosition'[e] >= 0
        /\ PositionContinues(e)
    ]_vars

\* A frame of one sample was fed at position 1 with ratio 3: it produced
\* no sample and the position went to 0.
C34_Witness ==
  /\ inputSampleRate = 3 * DEFAULT_TARGET_SAMPLE_RATE
  /\ frameLog["p1"] = <<RENDER_QUANTUM, 1>>
  /\ samplesOut["p1"] = 43
  /\ resamplePosition["p1"] = 0

\* C35: a config message that changes the target rate resets the resample
\* position, so that the next frame is resampled from position 0 with the
\* new ratio; nothing else resets the position.
C35_ConfigResetsPosition ==
  [][\A e \in Engines :
        /\ (pcmOp'[e] = "config"
            /\ targetSampleRate'[e] # targetSampleRate[e])
             => resamplePosition'[e] = 0
        /\ (pcmOp'[e] # "config" /\ ~FrameTaken(e))
             => resamplePosition'[e] = resamplePosition[e]
    ]_vars

\* C36: a config message changes only what it names.  One that carries
\* only a (positive) chunk size replaces the accumulator with an empty one
\* of that size, posts nothing, and leaves the target rate, and with it
\* the ratio, unchanged; one that carries only a (positive) target rate
\* sets the rate the ratio is computed from and leaves the chunk size and
\* the accumulator contents unchanged.
C36_ConfigChangesOnlyNamed ==
  [][\A e \in Engines : pcmOp'[e] = "config" /\ configs'[e] # configs[e] =>
        LET size == before'[e].size
            rate == before'[e].rate
        IN /\ (size > 0 /\ rate = 0) =>
                /\ bufferSize'[e] = size
                /\ bytesWritten'[e] = 0
                /\ buffer'[e] = <<>>
                /\ posted'[e] = posted[e]
                /\ targetSampleRate'[e] = targetSampleRate[e]
                /\ inputSampleRate' = inputSampleRate
           /\ (rate > 0 /\ size = 0) =>
                /\ targetSampleRate'[e] = rate
                /\ inputSampleRate' = inputSampleRate
                /\ bufferSize'[e] = bufferSize[e]
                /\ bytesWritten'[e] = bytesWritten[e]
                /\ buffer'[e] = buffer[e]
                /\ posted'[e] = posted[e]
    ]_vars

\* A config message with only a chunk size has discarded a partly filled
\* accumulator.
C36_Witness ==
  /\ pcmOp["p1"] = "config"
  /\ before["p1"].size = 3
  /\ before["p1"].rate = 0
  /\ before["p1"].bytesWritten > 0
  /\ before["p1"].bufferSize = 2
  /\ bufferSize["p1"] = 3
  /\ bytesWritten["p1"] = 0
  /\ AudioPosted("p1") # <<>>

\* C38: after n appended samples exactly floor(n / 512) level notifications
\* have been sent, whatever chunks were flushed meanwhile; the window's sum
\* and count are zero right after each notification; and every level sent
\* lies in [0, 1].
C38_LevelPerInterval ==
  \A e \in Engines :
     /\ Len(levels[e]) = samplesOut[e] \div levelUpdateInterval
     /\ levelSampleCount[e] = samplesOut[e] % levelUpdateInterval
     /\ levelSampleCount[e] = 0 => levelSum[e] = 0
     /\ \A i \in DOMAIN levels[e] :
           /\ levels[e][i] # NAN
           /\ levels[e][i] >= 0
           /\ levels[e][i] <= SAMPLE_UNIT

\* C37: once an engine has stopped it stays stopped, and every later
\* process() call returns false and appends no sample, whatever its input:
\* it posts no audio, level or other message and leaves the accumulator
\* and the level window as they are.
C37_NothingAfterStop ==
  [][\A e \in Engines : ~isRunning[e] =>
        /\ ~isRunning'[e]
        /\ pcmOp'[e] = "process" =>
             /\ processRet'[e] = "false"
             /\ samplesOut'[e] = samplesOut[e]
             /\ bytesWritten'[e] = bytesWritten[e]
             /\ buffer'[e] = buffer[e]
             /\ posted'[e] = posted[e]
             /\ levels'[e] = levels[e]
             /\ levelSampleCount'[e] = levelSampleCount[e]
             /\ levelSum'[e] = levelSum[e]
    ]_vars

\* process() was called after a stop that flushed a partial chunk.
C37_Witness ==
  /\ ~isRunning["p1"]
  /\ state["p1"] = "stopped"
  /\ pcmOp["p1"] = "process"
  /\ processRet["p1"] = "false"
  /\ samplesOut["p1"] > 0
  /\ Len(AudioPosted("p1")) > 1


\* ------------------------------------------------------------- recording
\* C40: when startRecording has finished, the recording flag is true only
\* if audio capture started: after a connection wait that ran out, and
\* after a microphone that could not be started, isRecording is false.
C40_RecordingOnlyIfCapturing ==
  /\ recOp = "started" => (isRecording => capturing)
  /\ recOp = "startTimedOut" => ~isRecording

\* stopRecording runs to its end in this step.
StopRecordingEnds == (StopRecordingBegin \/ StopPoll) /\ recPc' = "idle"

\* C39: stopRecording always terminates and always ends disconnected.  It
\* stops capture and requests flush; it leaves its wait only when the
\* transcript has been unchanged for 1 s after some data was received, or
\* when the maximum wait, of at least 5 s, has elapsed; it then calls
\* disconnect and sets isRecording to false, also when no transcription
\* arrives and when the connection is closed already.
C39_StopWaitsForUnchangedTranscript ==
  /\ [][StopRecordingEnds =>
          /\ ~capturing'
          /\ ~isRecording'
          /\ ~shouldConnect'
          /\ wsState' \notin {"CONNECTING", "OPEN"}]_vars
  /\ [][StopPoll /\ recPc' = "idle" =>
          /\ maxWait >= MIN_STOP_WAIT
          /\ \/ unchangedFor' >= STABLE_THRESHOLD /\ hadAnyData'
             \/ waited' >= maxWait]_vars
  /\ (recPc = "waiting" ~> recPc = "idle")

====
